---- MODULE Spec2Model ----
(***************************************************************************)
(* Model of reactor-safety-sim: the plant (crates/sim), the sensors        *)
(* (crates/sim), the PID controller (crates/controller), the 2-of-3        *)
(* safety monitor (crates/safety) and the drivers that tick them           *)
(* (crates/cli, crates/gui, tests/scenarios.rs).                           *)
(*                                                                         *)
(* f64 is modelled as a fixed-point number: an integer count of 1/Unit,    *)
(* finite while its magnitude is at most FMAX, with the three non-finite   *)
(* values INFINITY, NEG_INFINITY and NAN.  Arithmetic overflows to an      *)
(* infinity, and inf - inf, 0 * inf, 0 / 0 and inf / inf are NAN, as in    *)
(* IEEE 754.  Rounding is towards zero; there is no negative zero.         *)
(* The time stamps of the CLI and of the GUI are the exception: they are   *)
(* kept as binary floating-point numbers with f64's significand and        *)
(* rounding, because the two drivers compute them by different operations. *)
(***************************************************************************)
EXTENDS Integers, Sequences, FiniteSets, TLC

\* ------------------------------------------------------------------ f64

\* Fixed-point resolution: one unit is 0.001.
Unit == 10 ^ 3

\* Largest finite magnitude of the modelled f64 (2100.0).
FMAX == 2100 * Unit

INFINITY == FMAX + 1

NEG_INFINITY == -(FMAX + 1)

NAN == FMAX + 2

\* An integer literal n as f64.
F(n) == n * Unit

Abs(n) == IF n < 0 THEN -n ELSE n

Sgn(n) == IF n < 0 THEN -1 ELSE 1

is_nan(a) == a = NAN

is_finite(a) == a # NAN /\ a # INFINITY /\ a # NEG_INFINITY

\* Overflow of a finite result to an infinity.
Round(n) == IF n > FMAX THEN INFINITY ELSE IF n < -FMAX THEN NEG_INFINITY ELSE n

FNeg(a) ==
    IF a = NAN THEN NAN
    ELSE IF a = INFINITY THEN NEG_INFINITY
    ELSE IF a = NEG_INFINITY THEN INFINITY
    ELSE -a

FAdd(a, b) ==
    IF a = NAN \/ b = NAN THEN NAN
    ELSE IF ~is_finite(a) /\ ~is_finite(b) THEN (IF a = b THEN a ELSE NAN)
    ELSE IF ~is_finite(a) THEN a
    ELSE IF ~is_finite(b) THEN b
    ELSE Round(a + b)

FSub(a, b) == FAdd(a, FNeg(b))

\* Magnitude of a finite product, without leaving 32-bit integers.
MulMag(a, b) ==
    LET ah == a \div Unit
        al == a % Unit
        bh == b \div Unit
    IN  IF ah * bh > (FMAX \div Unit) + 1
        THEN INFINITY
        ELSE Round(ah * b + ((al * b) \div Unit))

FMul(a, b) ==
    IF a = NAN \/ b = NAN THEN NAN
    ELSE IF ~is_finite(a) \/ ~is_finite(b)
         THEN (IF a = 0 \/ b = 0 THEN NAN
               ELSE IF Sgn(a) * Sgn(b) > 0 THEN INFINITY ELSE NEG_INFINITY)
    ELSE LET m == MulMag(Abs(a), Abs(b))
         IN  IF Sgn(a) * Sgn(b) > 0 \/ m = 0 THEN m ELSE FNeg(m)

\* Magnitude of a finite quotient, b > 0.
DivMag(a, b) ==
    LET q == a \div b
    IN  IF q > (FMAX \div Unit) + 1
        THEN INFINITY
        ELSE Round(q * Unit + (((a % b) * Unit) \div b))

FDiv(a, b) ==
    IF a = NAN \/ b = NAN THEN NAN
    ELSE IF ~is_finite(a) /\ ~is_finite(b) THEN NAN
    ELSE IF ~is_finite(a) THEN (IF Sgn(a) * Sgn(b) > 0 THEN INFINITY ELSE NEG_INFINITY)
    ELSE IF ~is_finite(b) THEN 0
    ELSE IF b = 0 THEN (IF a = 0 THEN NAN ELSE IF a > 0 THEN INFINITY ELSE NEG_INFINITY)
    ELSE LET m == DivMag(Abs(a), Abs(b))
         IN  IF Sgn(a) * Sgn(b) > 0 \/ m = 0 THEN m ELSE FNeg(m)

\* Comparisons: every comparison with NAN is false.
FLt(a, b) == a # NAN /\ b # NAN /\ a < b

FLe(a, b) == a # NAN /\ b # NAN /\ a <= b

FGt(a, b) == FLt(b, a)

FGe(a, b) == FLe(b, a)

\* f64::min and f64::max: the other operand when one is NAN.
FMin(a, b) == IF a = NAN THEN b ELSE IF b = NAN THEN a ELSE IF a < b THEN a ELSE b

FMaxOf(a, b) == IF a = NAN THEN b ELSE IF b = NAN THEN a ELSE IF a > b THEN a ELSE b

\* f64::clamp(lo, hi): NAN stays NAN.
FClamp(a, lo, hi) == IF a = NAN THEN NAN ELSE IF a < lo THEN lo ELSE IF a > hi THEN hi ELSE a

\* --------------------------------------------------------------- state

VARIABLES
    s_cfg,      \* SafetyConfig of the run
    s_state,    \* SafetyState: [scram, reason]
    temps,      \* the readings handed to the last evaluate call (<<>>: none yet)
    x,          \* PlantState: [temp_c, power, coolant]
    pid,        \* Pid: [cfg, integral, prev_error]
    u,          \* what the last Pid::update call returned (<<>>: none yet)
    sensors,    \* <<s1, s2, s3>>, each a Sensor
    run,        \* the driver's settings and loop position
    samples     \* the trace rows emitted so far

vars == <<s_cfg, s_state, temps, x, pid, u, sensors, run, samples>>

\* -------------------------------------------------------- crates/safety

DefaultSafetyConfig ==
    [trip_temp_c |-> F(420), max_sensor_delta_c |-> F(10),
     valid_range_c |-> <<F(0), F(2000)>>]

DefaultSafetyState == [scram |-> FALSE, reason |-> "None"]

is_valid_exclusive(cfg, v) ==
    is_finite(v) /\ ~is_nan(v) /\ FGe(v, cfg.valid_range_c[1]) /\ FLt(v, cfg.valid_range_c[2])

is_valid(cfg, v) ==
    is_finite(v) /\ ~is_nan(v) /\ FGe(v, cfg.valid_range_c[1]) /\ FLe(v, cfg.valid_range_c[2])

two_out_of_three_any(flags) ==
    Cardinality({i \in 1..3 : flags[i]}) >= 1

two_out_of_three_all(flags) ==
    Cardinality({i \in 1..3 : flags[i]}) >= 3

two_out_of_three(flags) ==
    Cardinality({i \in 1..3 : flags[i]}) >= 2

\* The loop of evaluate over the valid channels, from (min_v, max_v) = (inf, -inf).
MinMaxValid(valids, t) ==
    LET step(acc, i) == IF valids[i]
                        THEN <<FMin(acc[1], t[i]), FMaxOf(acc[2], t[i])>>
                        ELSE acc
    IN  step(step(step(<<INFINITY, NEG_INFINITY>>, 1), 2), 3)

evaluate_no_latch(cfg, state, t) ==
    LET valids == [i \in 1..3 |-> is_valid(cfg, t[i])]
        mm     == MinMaxValid(valids, t)
        over   == [i \in 1..3 |-> valids[i] /\ FGe(t[i], cfg.trip_temp_c)]
    IN  IF ~two_out_of_three(valids)
        THEN [scram |-> TRUE, reason |-> "SensorInvalid"]
        ELSE IF FGt(FSub(mm[2], mm[1]), cfg.max_sensor_delta_c)
        THEN [scram |-> TRUE, reason |-> "SensorDisagree"]
        ELSE IF two_out_of_three(over)
        THEN [scram |-> TRUE, reason |-> "OverTemp"]
        ELSE state

evaluate_all_channels(cfg, state, t) ==
    LET valids == [i \in 1..3 |-> is_valid(cfg, t[i])]
        mm     == MinMaxValid([i \in 1..3 |-> TRUE], t)
        over   == [i \in 1..3 |-> valids[i] /\ FGe(t[i], cfg.trip_temp_c)]
    IN  IF state.scram THEN state
        ELSE IF ~two_out_of_three(valids)
        THEN [scram |-> TRUE, reason |-> "SensorInvalid"]
        ELSE IF FGt(FSub(mm[2], mm[1]), cfg.max_sensor_delta_c)
        THEN [scram |-> TRUE, reason |-> "SensorDisagree"]
        ELSE IF two_out_of_three(over)
        THEN [scram |-> TRUE, reason |-> "OverTemp"]
        ELSE state

evaluate_flag_only(cfg, state, t) ==
    LET valids == [i \in 1..3 |-> is_valid(cfg, t[i])]
        mm     == MinMaxValid(valids, t)
        over   == [i \in 1..3 |-> valids[i] /\ FGe(t[i], cfg.trip_temp_c)]
    IN  IF state.scram THEN state
        ELSE IF ~two_out_of_three(valids)
        THEN [scram |-> TRUE, reason |-> "SensorInvalid"]
        ELSE IF FGt(FSub(mm[2], mm[1]), cfg.max_sensor_delta_c)
        THEN [scram |-> TRUE, reason |-> "SensorDisagree"]
        ELSE IF two_out_of_three(over)
        THEN [scram |-> TRUE, reason |-> state.reason]
        ELSE state

evaluate_over_wrong_field(cfg, state, t) ==
    LET valids == [i \in 1..3 |-> is_valid(cfg, t[i])]
        mm     == MinMaxValid(valids, t)
        over   == [i \in 1..3 |-> valids[i] /\ FGe(t[i], cfg.max_sensor_delta_c)]
    IN  IF state.scram THEN state
        ELSE IF ~two_out_of_three(valids)
        THEN [scram |-> TRUE, reason |-> "SensorInvalid"]
        ELSE IF FGt(FSub(mm[2], mm[1]), cfg.max_sensor_delta_c)
        THEN [scram |-> TRUE, reason |-> "SensorDisagree"]
        ELSE IF two_out_of_three(over)
        THEN [scram |-> TRUE, reason |-> "OverTemp"]
        ELSE state

evaluate_disagree_inclusive(cfg, state, t) ==
    LET valids == [i \in 1..3 |-> is_valid(cfg, t[i])]
        mm     == MinMaxValid(valids, t)
        over   == [i \in 1..3 |-> valids[i] /\ FGe(t[i], cfg.trip_temp_c)]
    IN  IF state.scram THEN state
        ELSE IF ~two_out_of_three(valids)
        THEN [scram |-> TRUE, reason |-> "SensorInvalid"]
        ELSE IF FGe(FSub(mm[2], mm[1]), cfg.max_sensor_delta_c)
        THEN [scram |-> TRUE, reason |-> "SensorDisagree"]
        ELSE IF two_out_of_three(over)
        THEN [scram |-> TRUE, reason |-> "OverTemp"]
        ELSE state

evaluate_over_reversed(cfg, state, t) ==
    LET valids == [i \in 1..3 |-> is_valid(cfg, t[i])]
        mm     == MinMaxValid(valids, t)
        over   == [i \in 1..3 |-> valids[i] /\ FLe(t[i], cfg.trip_temp_c)]
    IN  IF state.scram THEN state
        ELSE IF ~two_out_of_three(valids)
        THEN [scram |-> TRUE, reason |-> "SensorInvalid"]
        ELSE IF FGt(FSub(mm[2], mm[1]), cfg.max_sensor_delta_c)
        THEN [scram |-> TRUE, reason |-> "SensorDisagree"]
        ELSE IF two_out_of_three(over)
        THEN [scram |-> TRUE, reason |-> "OverTemp"]
        ELSE state

evaluate(cfg, state, t) ==
    LET valids == [i \in 1..3 |-> is_valid(cfg, t[i])]
        mm     == MinMaxValid(valids, t)
        over   == [i \in 1..3 |-> valids[i] /\ FGe(t[i], cfg.trip_temp_c)]
    IN  IF state.scram THEN state
        ELSE IF ~two_out_of_three(valids)
        THEN [scram |-> TRUE, reason |-> "SensorInvalid"]
        ELSE IF FGt(FSub(mm[2], mm[1]), cfg.max_sensor_delta_c)
        THEN [scram |-> TRUE, reason |-> "SensorDisagree"]
        ELSE IF two_out_of_three(over)
        THEN [scram |-> TRUE, reason |-> "OverTemp"]
        ELSE state

\* ----------------------------------------------------------- crates/sim

DefaultPlantParams ==
    [ambient_c |-> F(25), thermal_mass |-> F(100), k_power |-> F(200), k_cool |-> 1500]

DefaultPlantState == [temp_c |-> F(300), power |-> 0, coolant |-> 500]

step_clamps_inputs(xs, p, dt_s) ==
    LET pw       == FClamp(xs.power, 0, F(1))
        cl       == FClamp(xs.coolant, 0, F(1))
        heat_in  == FMul(p.k_power, pw)
        heat_out == FMul(FMul(p.k_cool, cl), FSub(xs.temp_c, p.ambient_c))
        dtemp    == FDiv(FSub(heat_in, heat_out), p.thermal_mass)
        t1       == FAdd(xs.temp_c, FMul(dtemp, dt_s))
    IN  [xs EXCEPT !.temp_c = IF is_nan(t1) THEN p.ambient_c ELSE t1,
                   !.power = pw, !.coolant = cl]

step_unguarded(xs, p, dt_s) ==
    LET heat_in  == FMul(p.k_power, xs.power)
        heat_out == FMul(FMul(p.k_cool, xs.coolant), FSub(xs.temp_c, p.ambient_c))
        dtemp    == FDiv(FSub(heat_in, heat_out), p.thermal_mass)
        t1       == FAdd(xs.temp_c, FMul(dtemp, dt_s))
    IN  [xs EXCEPT !.temp_c = t1]

\* PlantState::step: one forward-Euler step, then the NaN guard.
step(xs, p, dt_s) ==
    LET heat_in  == FMul(p.k_power, xs.power)
        heat_out == FMul(FMul(p.k_cool, xs.coolant), FSub(xs.temp_c, p.ambient_c))
        dtemp    == FDiv(FSub(heat_in, heat_out), p.thermal_mass)
        t1       == FAdd(xs.temp_c, FMul(dtemp, dt_s))
    IN  [xs EXCEPT !.temp_c = IF is_nan(t1) THEN p.ambient_c ELSE t1]

NoFault == [kind |-> "None", value |-> 0]

Stuck(v) == [kind |-> "Stuck", value |-> v]

Bias(v) == [kind |-> "Bias", value |-> v]

Drift(per_s) == [kind |-> "Drift", value |-> per_s]

DropoutEvery(n) == [kind |-> "DropoutEvery", value |-> n]

\* Number of states of the modelled generator.
RngPeriod == 16

\* The modelled normal distribution draws a whole number of standard
\* deviations, at most this many either side of the mean.
NoiseSigmas == 2

\* StdRng::seed_from_u64.
seed_from_u64(seed) == seed % RngPeriod

\* The generator's next state after one draw.
NextRng(r) == (5 * r + 3) % RngPeriod

\* Normal::new(0.0, std).sample(rng): std times a standard normal draw.
NormalSample(std, r) == FMul(std, F((r % (2 * NoiseSigmas + 1)) - NoiseSigmas))

\* Sensor::new
SensorNew(seed) ==
    [noise_std |-> 250, fault |-> NoFault, valid_range |-> <<F(0), F(2000)>>,
     rng |-> seed_from_u64(seed), step_count |-> 0]

read_temp_bias_dropped(s, true_temp, dt_s) ==
    LET sc   == s.step_count + 1
        s1   == [s EXCEPT !.step_count = sc]
        f    == s.fault
        drop == f.kind = "DropoutEvery" /\ f.value > 0 /\ (sc % f.value) = 0
        base == CASE f.kind = "None"  -> true_temp
                  [] f.kind = "Stuck" -> f.value
                  [] f.kind = "Bias"  -> true_temp
                  [] f.kind = "Drift" -> FAdd(true_temp, FMul(FMul(f.value, Round(F(sc))), dt_s))
                  [] OTHER            -> true_temp
    IN  IF drop THEN <<s1, NAN>>
        ELSE IF FGt(s.noise_std, 0)
        THEN <<[s1 EXCEPT !.rng = NextRng(s.rng)], FAdd(base, NormalSample(s.noise_std, s.rng))>>
        ELSE <<s1, base>>

read_temp_dropout_uncounted(s, true_temp, dt_s) ==
    LET sc   == s.step_count + 1
        s1   == [s EXCEPT !.step_count = sc]
        f    == s.fault
        drop == f.kind = "DropoutEvery" /\ f.value > 0 /\ (sc % f.value) = 0
        base == CASE f.kind = "None"  -> true_temp
                  [] f.kind = "Stuck" -> f.value
                  [] f.kind = "Bias"  -> FAdd(true_temp, f.value)
                  [] f.kind = "Drift" -> FAdd(true_temp, FMul(FMul(f.value, Round(F(sc))), dt_s))
                  [] OTHER            -> true_temp
    IN  IF drop THEN <<s, NAN>>
        ELSE IF FGt(s.noise_std, 0)
        THEN <<[s1 EXCEPT !.rng = NextRng(s.rng)], FAdd(base, NormalSample(s.noise_std, s.rng))>>
        ELSE <<s1, base>>

read_temp_stuck_offset(s, true_temp, dt_s) ==
    LET sc   == s.step_count + 1
        s1   == [s EXCEPT !.step_count = sc]
        f    == s.fault
        drop == f.kind = "DropoutEvery" /\ f.value > 0 /\ (sc % f.value) = 0
        base == CASE f.kind = "None"  -> true_temp
                  [] f.kind = "Stuck" -> FAdd(true_temp, f.value)
                  [] f.kind = "Bias"  -> FAdd(true_temp, f.value)
                  [] f.kind = "Drift" -> FAdd(true_temp, FMul(FMul(f.value, Round(F(sc))), dt_s))
                  [] OTHER            -> true_temp
    IN  IF drop THEN <<s1, NAN>>
        ELSE IF FGt(s.noise_std, 0)
        THEN <<[s1 EXCEPT !.rng = NextRng(s.rng)], FAdd(base, NormalSample(s.noise_std, s.rng))>>
        ELSE <<s1, base>>

read_temp_drift_from_zero(s, true_temp, dt_s) ==
    LET sc   == s.step_count + 1
        s1   == [s EXCEPT !.step_count = sc]
        f    == s.fault
        drop == f.kind = "DropoutEvery" /\ f.value > 0 /\ (sc % f.value) = 0
        base == CASE f.kind = "None"  -> true_temp
                  [] f.kind = "Stuck" -> f.value
                  [] f.kind = "Bias"  -> FAdd(true_temp, f.value)
                  [] f.kind = "Drift" -> FAdd(true_temp, FMul(FMul(f.value, Round(F(s.step_count))), dt_s))
                  [] OTHER            -> true_temp
    IN  IF drop THEN <<s1, NAN>>
        ELSE IF FGt(s.noise_std, 0)
        THEN <<[s1 EXCEPT !.rng = NextRng(s.rng)], FAdd(base, NormalSample(s.noise_std, s.rng))>>
        ELSE <<s1, base>>

\* Sensor::read_temp: <<the sensor after the call, the value returned>>.
read_temp(s, true_temp, dt_s) ==
    LET sc   == s.step_count + 1
        s1   == [s EXCEPT !.step_count = sc]
        f    == s.fault
        drop == f.kind = "DropoutEvery" /\ f.value > 0 /\ (sc % f.value) = 0
        base == CASE f.kind = "None"  -> true_temp
                  [] f.kind = "Stuck" -> f.value
                  [] f.kind = "Bias"  -> FAdd(true_temp, f.value)
                  [] f.kind = "Drift" -> FAdd(true_temp, FMul(FMul(f.value, Round(F(sc))), dt_s))
                  [] OTHER            -> true_temp
    IN  IF drop THEN <<s1, NAN>>
        ELSE IF FGt(s.noise_std, 0)
        THEN <<[s1 EXCEPT !.rng = NextRng(s.rng)], FAdd(base, NormalSample(s.noise_std, s.rng))>>
        ELSE <<s1, base>>

\* ---------------------------------------------------- crates/controller

DefaultPidConfig == [kp |-> 20, ki |-> 5, kd |-> 0, out_min |-> 0, out_max |-> F(1)]

\* Pid::new
PidNew(cfg) == [cfg |-> cfg, integral |-> 0, prev_error |-> <<>>]

reset_keeps_prev_error(c) == [c EXCEPT !.integral = 0]

\* Pid::reset
reset(c) == [c EXCEPT !.integral = 0, !.prev_error = <<>>]

\* The anti-windup decay factor, 0.98.
Decay == 980

update_no_decay(c, setpoint, measurement, dt_s) ==
    LET error    == FSub(setpoint, measurement)
        integral == FAdd(c.integral, FMul(error, dt_s))
        deriv    == IF c.prev_error # <<>> /\ FGt(dt_s, 0)
                    THEN FDiv(FSub(error, c.prev_error[1]), dt_s)
                    ELSE 0
        raw      == FAdd(FAdd(FMul(c.cfg.kp, error), FMul(c.cfg.ki, integral)),
                         FMul(c.cfg.kd, deriv))
        hi       == FGt(raw, c.cfg.out_max)
        lo       == ~hi /\ FLt(raw, c.cfg.out_min)
        out      == IF hi THEN c.cfg.out_max ELSE IF lo THEN c.cfg.out_min ELSE raw
    IN  <<[c EXCEPT !.integral = integral, !.prev_error = <<error>>], out>>

update_output_before_accumulate(c, setpoint, measurement, dt_s) ==
    LET error    == FSub(setpoint, measurement)
        integral == FAdd(c.integral, FMul(error, dt_s))
        deriv    == IF c.prev_error # <<>> /\ FGt(dt_s, 0)
                    THEN FDiv(FSub(error, c.prev_error[1]), dt_s)
                    ELSE 0
        raw      == FAdd(FAdd(FMul(c.cfg.kp, error), FMul(c.cfg.ki, c.integral)),
                         FMul(c.cfg.kd, deriv))
        hi       == FGt(raw, c.cfg.out_max)
        lo       == ~hi /\ FLt(raw, c.cfg.out_min)
        out      == IF hi THEN c.cfg.out_max ELSE IF lo THEN c.cfg.out_min ELSE raw
        decay    == (hi /\ FGt(error, 0)) \/ (lo /\ FLt(error, 0))
    IN  <<[c EXCEPT !.integral = IF decay THEN FMul(integral, Decay) ELSE integral,
                    !.prev_error = <<error>>],
          out>>

update_first_error_from_zero(c, setpoint, measurement, dt_s) ==
    LET error    == FSub(setpoint, measurement)
        integral == FAdd(c.integral, FMul(error, dt_s))
        deriv    == IF FGt(dt_s, 0)
                    THEN FDiv(FSub(error, (IF c.prev_error # <<>> THEN c.prev_error[1] ELSE 0)), dt_s)
                    ELSE 0
        raw      == FAdd(FAdd(FMul(c.cfg.kp, error), FMul(c.cfg.ki, integral)),
                         FMul(c.cfg.kd, deriv))
        hi       == FGt(raw, c.cfg.out_max)
        lo       == ~hi /\ FLt(raw, c.cfg.out_min)
        out      == IF hi THEN c.cfg.out_max ELSE IF lo THEN c.cfg.out_min ELSE raw
        decay    == (hi /\ FGt(error, 0)) \/ (lo /\ FLt(error, 0))
    IN  <<[c EXCEPT !.integral = IF decay THEN FMul(integral, Decay) ELSE integral,
                    !.prev_error = <<error>>],
          out>>

\* Pid::update: <<the controller after the call, the value returned>>.
update(c, setpoint, measurement, dt_s) ==
    LET error    == FSub(setpoint, measurement)
        integral == FAdd(c.integral, FMul(error, dt_s))
        deriv    == IF c.prev_error # <<>> /\ FGt(dt_s, 0)
                    THEN FDiv(FSub(error, c.prev_error[1]), dt_s)
                    ELSE 0
        raw      == FAdd(FAdd(FMul(c.cfg.kp, error), FMul(c.cfg.ki, integral)),
                         FMul(c.cfg.kd, deriv))
        hi       == FGt(raw, c.cfg.out_max)
        lo       == ~hi /\ FLt(raw, c.cfg.out_min)
        out      == IF hi THEN c.cfg.out_max ELSE IF lo THEN c.cfg.out_min ELSE raw
        decay    == (hi /\ FGt(error, 0)) \/ (lo /\ FLt(error, 0))
    IN  <<[c EXCEPT !.integral = IF decay THEN FMul(integral, Decay) ELSE integral,
                    !.prev_error = <<error>>],
          out>>

\* ------------------------------------------- the monitor on its own

\* Readings handed to evaluate: the non-finite values, values either side of
\* and on the valid range's bounds, and values around the trip temperature.
Readings ==
    {NAN, INFINITY, NEG_INFINITY, F(-1), F(0), F(410), F(415), F(420), F(431),
     F(2000), F(2001)}

SafetyConfigs ==
    {DefaultSafetyConfig,
     [trip_temp_c |-> F(415), max_sensor_delta_c |-> F(5), valid_range_c |-> <<F(0), F(2000)>>]}

\* What the parts of the program a specification does not run are left at.
IdlePlant == x = DefaultPlantState

IdlePid == pid = PidNew(DefaultPidConfig) /\ u = <<>>

IdleSensors == sensors = <<>>

IdleRun == run = [driver |-> "none"] /\ samples = <<>>

Init ==
    /\ s_cfg \in SafetyConfigs
    /\ s_state = DefaultSafetyState
    /\ temps = <<>>
    /\ IdlePlant /\ IdlePid /\ IdleSensors /\ IdleRun

\* One call of safety::evaluate with any three readings.
Evaluate ==
    \E t \in Readings \X Readings \X Readings :
        /\ temps' = t
        /\ s_state' = evaluate(s_cfg, s_state, t)
        /\ UNCHANGED <<s_cfg, x, pid, u, sensors, run, samples>>

Next == Evaluate

Spec == Init /\ [][Next]_vars

\* ------------------------------------------- claims about the monitor

\* A reading is valid: finite and inside the inclusive valid range.
ValidReading(v) ==
    /\ v \notin {NAN, INFINITY, NEG_INFINITY}
    /\ s_cfg.valid_range_c[1] <= v
    /\ v <= s_cfg.valid_range_c[2]

ValidChannels(t) == {i \in 1..3 : ValidReading(t[i])}

\* The channels flagged over threshold: valid, and reading >= trip_temp_c.
OverChannels(t) == {i \in ValidChannels(t) : t[i] >= s_cfg.trip_temp_c}

\* max - min over the valid readings alone (0 when there is none).
SpreadValid(t) ==
    LET V == {t[i] : i \in ValidChannels(t)}
    IN  IF V = {} THEN 0
        ELSE (CHOOSE hi \in V : \A w \in V : w <= hi) - (CHOOSE lo \in V : \A w \in V : lo <= w)

Tripped(reason) == s_state.scram /\ s_state.reason = reason

\* C1 -- Latching: once scram is true, an evaluate call with any three
\* readings leaves scram true and the reason what it was at the trip.
C1_Latching == [][s_state.scram => s_state' = s_state]_vars

\* C1's case: a tripped monitor whose last call was handed three valid,
\* agreeing readings below the trip temperature.
C1_Witness ==
    /\ s_state.scram
    /\ temps # <<>>
    /\ ValidChannels(temps) = 1..3
    /\ SpreadValid(temps) <= s_cfg.max_sensor_delta_c
    /\ OverChannels(temps) = {}

\* C2 -- Validity majority and precedence: an armed monitor trips with reason
\* SensorInvalid exactly when fewer than 2 of the 3 readings are valid, whatever
\* else the readings would vote for.
C2_ValidityMajority ==
    [][~s_state.scram =>
         ((s_state'.scram /\ s_state'.reason = "SensorInvalid")
            <=> Cardinality(ValidChannels(temps')) < 2)]_vars

\* C2's case: tripped on SensorInvalid by readings of which two are at or above
\* the trip temperature and the only valid one disagrees with them.
C2_Witness ==
    /\ Tripped("SensorInvalid")
    /\ temps # <<>>
    /\ Cardinality(ValidChannels(temps)) = 1
    /\ Cardinality({i \in 1..3 : temps[i] # NAN /\ temps[i] >= s_cfg.trip_temp_c}) >= 2

\* C3 as stated -- an armed monitor trips with reason OverTemp exactly when at
\* least 2 of the 3 over-threshold flags are true.
C3_OverTempMajority_Original ==
    [][~s_state.scram =>
         ((s_state'.scram /\ s_state'.reason = "OverTemp")
            <=> Cardinality(OverChannels(temps')) >= 2)]_vars

\* C3 as amended -- an armed monitor trips with reason OverTemp exactly when at
\* least 2 of the 3 over-threshold flags are true and the spread of the valid
\* readings does not exceed max_sensor_delta_c.
C3_OverTempMajority ==
    [][~s_state.scram =>
         ((s_state'.scram /\ s_state'.reason = "OverTemp")
            <=> (/\ Cardinality(OverChannels(temps')) >= 2
                 /\ SpreadValid(temps') <= s_cfg.max_sensor_delta_c))]_vars

\* C3's case: tripped on OverTemp with exactly two channels flagged.
C3_Witness ==
    /\ Tripped("OverTemp")
    /\ temps # <<>>
    /\ Cardinality(OverChannels(temps)) = 2

\* C4 -- Disagreement over the valid channels only: with at least 2 valid
\* readings an armed monitor trips with reason SensorDisagree exactly when
\* max - min over the valid readings exceeds max_sensor_delta_c, before any
\* over-temperature vote.
C4_DisagreeValidOnly ==
    [][(~s_state.scram /\ Cardinality(ValidChannels(temps')) >= 2) =>
         ((s_state'.scram /\ s_state'.reason = "SensorDisagree")
            <=> SpreadValid(temps') > s_cfg.max_sensor_delta_c)]_vars

\* C4's case: tripped on SensorDisagree with one channel invalid and both
\* valid channels over threshold.
C4_Witness ==
    /\ Tripped("SensorDisagree")
    /\ temps # <<>>
    /\ Cardinality(ValidChannels(temps)) = 2
    /\ Cardinality(OverChannels(temps)) = 2

\* C5 -- the reason is present exactly when scram is true, and it changes only
\* in a step that takes scram from false to true.
C5_ReasonConsistent ==
    /\ []((s_state.reason # "None") <=> s_state.scram)
    /\ [][s_state'.reason # s_state.reason => (~s_state.scram /\ s_state'.scram)]_vars

\* C5's case: a call that did not trip (three valid agreeing readings, fewer
\* than two over threshold) left the monitor armed with no reason.
C5_Witness ==
    /\ ~s_state.scram
    /\ s_state.reason = "None"
    /\ temps # <<>>
    /\ Cardinality(OverChannels(temps)) = 1

\* ------------------------------------------------------------ f64 time

\* The time stamps of a run are kept bit for bit: an f64 is a significand of
\* MantissaBits bits times a power of two, and every operation rounds its
\* exact result to the nearest such number, ties to the even significand.
\* A natural is a sequence of limbs of LimbBits bits, least significant limb
\* first, the last limb not 0.  The magnitudes of a run's time stamps are far
\* from the exponent's range, so there is no overflow or subnormal to model.
MantissaBits == 52 + 1

LimbBits == 10 + 3

Radix == 2 ^ LimbBits

Limb(a, i) == IF 1 <= i /\ i <= Len(a) THEN a[i] ELSE 0

RECURSIVE NatOf(_)
NatOf(n) == IF n = 0 THEN <<>> ELSE <<n % Radix>> \o NatOf(n \div Radix)

\* The number of bits of a.
BitLen(a) ==
    IF a = <<>> THEN 0
    ELSE (Len(a) - 1) * LimbBits
         + (CHOOSE j \in 1..LimbBits : 2 ^ (j - 1) <= a[Len(a)] /\ a[Len(a)] < 2 ^ j)

\* Bit i of a, bit 0 the least significant.
NatBit(a, i) == (Limb(a, (i \div LimbBits) + 1) \div (2 ^ (i % LimbBits))) % 2

NatTrim(a) ==
    IF \A i \in 1..Len(a) : a[i] = 0 THEN <<>>
    ELSE SubSeq(a, 1, CHOOSE l \in 1..Len(a) :
                          a[l] # 0 /\ \A i \in (l + 1)..Len(a) : a[i] = 0)

\* The limbs of a + b + c from limb i upwards, c the carry into limb i.
RECURSIVE NatAddFrom(_, _, _, _)
NatAddFrom(a, b, i, c) ==
    IF i > Len(a) /\ i > Len(b) THEN NatOf(c)
    ELSE <<(Limb(a, i) + Limb(b, i) + c) % Radix>>
         \o NatAddFrom(a, b, i + 1, (Limb(a, i) + Limb(b, i) + c) \div Radix)

NatAdd(a, b) == NatAddFrom(a, b, 1, 0)

\* The limbs of a * k + c from limb i upwards, for k below 2^17.
RECURSIVE NatMulFrom(_, _, _, _)
NatMulFrom(a, k, i, c) ==
    IF i > Len(a) THEN NatOf(c)
    ELSE <<(a[i] * k + c) % Radix>> \o NatMulFrom(a, k, i + 1, (a[i] * k + c) \div Radix)

NatMul(a, k) == IF k = 0 THEN <<>> ELSE NatMulFrom(a, k, 1, 0)

\* a * 2^n
NatShl(a, n) ==
    IF a = <<>> THEN <<>>
    ELSE [i \in 1..(n \div LimbBits) |-> 0] \o NatMul(a, 2 ^ (n % LimbBits))

\* a / 2^n, rounded down
NatShr(a, n) ==
    NatTrim([j \in 1..Len(a) |->
                (Limb(a, j + (n \div LimbBits)) \div (2 ^ (n % LimbBits)))
                + (Limb(a, j + (n \div LimbBits) + 1) % (2 ^ (n % LimbBits)))
                  * (2 ^ (LimbBits - (n % LimbBits)))])

\* a > b for two naturals of the same length, from limb i downwards
RECURSIVE NatGtFrom(_, _, _)
NatGtFrom(a, b, i) ==
    IF i = 0 THEN FALSE
    ELSE IF a[i] # b[i] THEN a[i] > b[i]
    ELSE NatGtFrom(a, b, i - 1)

\* 0.0
BinZero == [m |-> <<>>, e |-> 0]

\* Ties-to-even rounding of n to the bits from d upwards.
BinRoundAt(n, e, d) ==
    LET kept == NatShr(n, d)
        up   == /\ NatBit(n, d - 1) = 1
                /\ (NatBit(n, d) = 1 \/ \E i \in 0..(d - 2) : NatBit(n, i) = 1)
        r    == IF up THEN NatAdd(kept, <<1>>) ELSE kept
    IN  IF BitLen(r) > MantissaBits
        THEN [m |-> NatShr(r, 1), e |-> e + d + 1]
        ELSE [m |-> r, e |-> e + d]

\* The f64 nearest to n * 2^e: the significand m has exactly MantissaBits
\* bits, the value is m * 2^e.
BinRound(n, e) ==
    IF n = <<>> THEN BinZero
    ELSE IF BitLen(n) <= MantissaBits
    THEN [m |-> NatShl(n, MantissaBits - BitLen(n)), e |-> e - (MantissaBits - BitLen(n))]
    ELSE BinRoundAt(n, e, BitLen(n) - MantissaBits)

\* f64 + of two non-negative numbers
BinAdd(f, g) ==
    IF f.m = <<>> THEN g
    ELSE IF g.m = <<>> THEN f
    ELSE IF f.e < g.e
    THEN BinRound(NatAdd(f.m, NatShl(g.m, g.e - f.e)), f.e)
    ELSE BinRound(NatAdd(NatShl(f.m, f.e - g.e), g.m), g.e)

\* (k as f64) * f, for a natural k below 2^17
BinMulInt(k, f) == BinRound(NatMul(f.m, k), f.e)

\* The first n limbs of the fraction r / b < 1, b below 2^17.
RECURSIVE QuotLimbs(_, _, _)
QuotLimbs(r, b, n) ==
    IF n = 0 THEN <<>>
    ELSE QuotLimbs((r * Radix) % b, b, n - 1) \o <<(r * Radix) \div b>>

\* The remainder those n limbs leave.
RECURSIVE RemAfter(_, _, _)
RemAfter(r, b, n) ==
    IF n = 0 \/ r = 0 THEN r ELSE RemAfter((r * Radix) % b, b, n - 1)

\* Limbs of fraction that hold at least 2 * MantissaBits bits.
FractionLimbs == (2 * MantissaBits) \div LimbBits + 1

\* (a as f64) / (b as f64) for naturals a and 0 < b < 2^17: the quotient to
\* FractionLimbs limbs of fraction, one more bit set when the division left a
\* remainder, rounded once.
BinDivInt(a, b) ==
    LET q      == NatTrim(QuotLimbs(a % b, b, FractionLimbs) \o NatOf(a \div b))
        sticky == IF RemAfter(a % b, b, FractionLimbs) # 0 THEN 1 ELSE 0
    IN  BinRound(NatAdd(NatMul(q, 2), NatOf(sticky)), -(FractionLimbs * LimbBits) - 1)

\* f64 > of two non-negative numbers
BinGt(f, g) ==
    IF f.m = <<>> THEN FALSE
    ELSE IF g.m = <<>> THEN TRUE
    ELSE IF f.e # g.e THEN f.e > g.e
    ELSE NatGtFrom(f.m, g.m, Len(f.m))

\* ------------------------------------------------------------ drivers

\* Every variable of the program as one record, so that a handler is a
\* function from the program's state to the program's state.
World ==
    [s_cfg |-> s_cfg, s_state |-> s_state, temps |-> temps, x |-> x, pid |-> pid,
     u |-> u, sensors |-> sensors, run |-> run, samples |-> samples]

Becomes(w) ==
    /\ s_cfg' = w.s_cfg
    /\ s_state' = w.s_state
    /\ temps' = w.temps
    /\ x' = w.x
    /\ pid' = w.pid
    /\ u' = w.u
    /\ sensors' = w.sensors
    /\ run' = w.run
    /\ samples' = w.samples

\* u64 ^ u64, bit by bit.
RECURSIVE Xor(_, _)
Xor(a, b) ==
    IF a = 0 THEN b
    ELSE IF b = 0 THEN a
    ELSE 2 * Xor(a \div 2, b \div 2) + (((a % 2) + (b % 2)) % 2)

\* (seconds / dt_s).ceil() as u64, for a finite quotient.
CeilU64(f) ==
    IF f = NAN \/ f <= 0 THEN 0
    ELSE (f \div Unit) + (IF f % Unit = 0 THEN 0 ELSE 1)

\* The three read_temp calls of a tick: <<the sensors after them, the readings>>.
ReadSensors(ss, true_temp, dt_s) ==
    LET r1 == read_temp(ss[1], true_temp, dt_s)
        r2 == read_temp(ss[2], true_temp, dt_s)
        r3 == read_temp(ss[3], true_temp, dt_s)
    IN  <<(<<r1[1], r2[1], r3[1]>>), (<<r1[2], r2[2], r3[2]>>)>>

FusedMeasurement_truth(ys, true_temp) == true_temp

\* The measurement handed to the controller: the mean of the finite readings,
\* or the plant's true temperature when there is none.
FusedMeasurement(ys, true_temp) ==
    LET add(acc, y) == IF is_finite(y) /\ ~is_nan(y)
                       THEN <<FAdd(acc[1], y), FAdd(acc[2], F(1))>>
                       ELSE acc
        sn == add(add(add(<<0, 0>>, ys[1]), ys[2]), ys[3])
    IN  IF FGt(sn[2], 0) THEN FDiv(sn[1], sn[2]) ELSE true_temp

\* apply_scenario of the CLI and of the GUI: the coolant fraction, the fault
\* of sensor 2 and the noise of all three.
apply_scenario(w) ==
    LET cool == CASE w.run.scenario = "Normal"         -> 600
                  [] w.run.scenario = "Overheat"       -> 200
                  [] w.run.scenario = "LossOfCooling"  -> 700
                  [] w.run.scenario = "SensorDisagree" -> 600
        f2   == IF w.run.scenario = "SensorDisagree" THEN Bias(F(20)) ELSE NoFault
    IN  [w EXCEPT !.x.coolant = cool,
                  !.sensors = <<[w.sensors[1] EXCEPT !.noise_std = 150],
                                [w.sensors[2] EXCEPT !.noise_std = 150, !.fault = f2],
                                [w.sensors[3] EXCEPT !.noise_std = 150]>>]

\* What main sets up before its loop, and what reset_live leaves, with dt_s
\* the time step in seconds.  The same quotient is kept bit for bit in dt_bits
\* for the time stamps.
FreshRunAt(w, dt_s) ==
    apply_scenario(
      [w EXCEPT !.run.dt_s = dt_s,
                !.run.dt_bits = BinDivInt(w.run.dt_ms, 1000),
                !.run.steps = CeilU64(FDiv(w.run.seconds, dt_s)),
                !.run.k = 0, !.run.t = BinZero, !.run.running = FALSE,
                !.run.done = FALSE, !.run.plant_steps = 0,
                !.x = DefaultPlantState,
                !.pid = PidNew(DefaultPidConfig),
                !.u = <<>>,
                !.s_cfg = [DefaultSafetyConfig EXCEPT !.trip_temp_c = w.run.trip_temp],
                !.s_state = DefaultSafetyState,
                !.temps = <<>>,
                !.sensors = <<SensorNew(Xor(w.run.seed, 161)),
                              SensorNew(Xor(w.run.seed, 178)),
                              SensorNew(Xor(w.run.seed, 195))>>,
                !.samples = <<>>])

FreshRun(w) == FreshRunAt(w, FDiv(F(w.run.dt_ms), F(1000)))

\* The part of a tick the CLI and the GUI share, at time t_s (kept bit for
\* bit), statement by statement: each operator hands what it computed to the
\* next.

\* The row a tick emits: the CLI's TraceRow carries the reason, the GUI's
\* Sample does not.
TraceRow(d, t_s, ys, st, x1) ==
    IF d = "cli"
    THEN [t |-> t_s, true_temp |-> x1.temp_c, s1 |-> ys[1], s2 |-> ys[2], s3 |-> ys[3],
          power |-> x1.power, coolant |-> x1.coolant, scram |-> st.scram,
          reason |-> st.reason]
    ELSE [t |-> t_s, true_temp |-> x1.temp_c, s1 |-> ys[1], s2 |-> ys[2], s3 |-> ys[3],
          power |-> x1.power, coolant |-> x1.coolant, scram |-> st.scram]

\* The emitted row and the state the tick leaves.
TickEmit(w, t_s, ys, ss, st, c, uu, x1) ==
    [w EXCEPT !.sensors = ss, !.temps = ys, !.s_state = st, !.pid = c, !.u = uu,
              !.x = x1,
              !.run.plant_steps = w.run.plant_steps + 1,
              !.samples = Append(w.samples, TraceRow(w.run.driver, t_s, ys, st, x1))]

\* seconds * 0.3 for a whole number of seconds, 0.3 being the f64 nearest to
\* 3 / 10.
LossOfCoolingOnset(seconds) == BinMulInt(seconds \div Unit, BinDivInt(3, 10))

\* With the power pw decided: the loss-of-cooling tweak, then the plant step.
TickPlant(w, t_s, ys, ss, st, c, uu, pw) ==
    TickEmit(w, t_s, ys, ss, st, c, uu,
             step([w.x EXCEPT !.power = pw,
                              !.coolant = IF /\ w.run.scenario = "LossOfCooling"
                                             /\ BinGt(t_s, LossOfCoolingOnset(w.run.seconds))
                                          THEN 50 ELSE w.x.coolant],
                  DefaultPlantParams, w.run.dt_s))

\* The armed branch, with up the result of Pid::update.
TickControl(w, t_s, ys, ss, st, up) ==
    TickPlant(w, t_s, ys, ss, st, up[1], <<up[2]>>, FClamp(up[2], 0, F(1)))

TickActuate_power_kept(w, t_s, ys, ss, st) ==
    IF st.scram
    THEN TickPlant(w, t_s, ys, ss, st, w.pid, w.u, w.x.power)
    ELSE TickControl(w, t_s, ys, ss, st,
                     update(w.pid, w.run.setpoint, FusedMeasurement(ys, w.x.temp_c),
                            w.run.dt_s))

\* With st the safety state after evaluate: power off when tripped, else the
\* controller's command from the fused measurement.
TickActuate(w, t_s, ys, ss, st) ==
    IF st.scram
    THEN TickPlant(w, t_s, ys, ss, st, w.pid, w.u, 0)
    ELSE TickControl(w, t_s, ys, ss, st,
                     update(w.pid, w.run.setpoint, FusedMeasurement(ys, w.x.temp_c),
                            w.run.dt_s))

\* With rd the sensors after the reads and the readings: evaluate.
TickEvaluate(w, t_s, rd) ==
    TickActuate(w, t_s, rd[2], rd[1], evaluate(w.s_cfg, w.s_state, rd[2]))

TickBody(w, t_s) ==
    TickEvaluate(w, t_s, ReadSensors(w.sensors, w.x.temp_c, w.run.dt_s))

CliAdvance_no_break(w1) ==
    [w1 EXCEPT !.run.k = w1.run.k + 1,
               !.run.done = w1.run.k + 1 >= w1.run.steps]

\* The end of an iteration of main's loop: the break on scram, the loop bound.
CliAdvance(w1) ==
    [w1 EXCEPT !.run.k = w1.run.k + 1,
               !.run.done = w1.s_state.scram \/ w1.run.k + 1 >= w1.run.steps]

\* One iteration of main's loop, and the loop's exit.
cli_tick(w) == CliAdvance(TickBody(w, BinMulInt(w.run.k, w.run.dt_bits)))

\* The end of step_once_live: time and step count advance, a trip stops the run.
LiveAdvance(w1) ==
    [w1 EXCEPT !.run.t = BinAdd(w1.run.t, w1.run.dt_bits),
               !.run.k = w1.run.k + 1,
               !.run.running = IF w1.s_state.scram THEN FALSE ELSE w1.run.running]

\* App::step_once_live
step_once_live(w) ==
    IF w.run.k >= w.run.steps
    THEN [w EXCEPT !.run.running = FALSE]
    ELSE LiveAdvance(TickBody(w, w.run.t))

\* The frames' live stepping: up to 5 steps while running.
RECURSIVE LiveFrame(_, _)
LiveFrame(w, n) ==
    IF n = 0 \/ ~w.run.running THEN w ELSE LiveFrame(step_once_live(w), n - 1)

\* App::clear_replay
clear_replay(w) ==
    [w EXCEPT !.run.replay_loaded = FALSE, !.run.replay_all = <<>>,
              !.run.replay_pos = 0, !.run.replay_playing = FALSE,
              !.run.replay_reason = "None", !.run.last_error = "None"]

\* App::reset
app_reset(w) == FreshRun(clear_replay(w))

\* The Run/Pause button.
run_button(w) ==
    IF ~w.run.running
    THEN [apply_scenario(FreshRun(clear_replay(w))) EXCEPT !.run.running = TRUE]
    ELSE [w EXCEPT !.run.running = FALSE]

\* The end of an iteration of the test's loop, with st the safety state after
\* evaluate: break on scram, else the plant step.
TestAdvance(w, rd, st) ==
    IF st.scram
    THEN [w EXCEPT !.sensors = rd[1], !.temps = rd[2], !.s_state = st, !.run.done = TRUE]
    ELSE [w EXCEPT !.sensors = rd[1], !.temps = rd[2], !.s_state = st,
                   !.x = step(w.x, DefaultPlantParams, w.run.dt_s),
                   !.run.plant_steps = w.run.plant_steps + 1,
                   !.run.k = w.run.k + 1, !.run.done = w.run.k + 1 >= w.run.steps]

TestEvaluate(w, rd) == TestAdvance(w, rd, evaluate(w.s_cfg, w.s_state, rd[2]))

\* One iteration of the loop of overtemp_trips_scram, and the loop's exit.
test_tick(w) == TestEvaluate(w, ReadSensors(w.sensors, w.x.temp_c, w.run.dt_s))

Scenarios == {"Normal", "Overheat", "LossOfCooling", "SensorDisagree"}

\* The run length every modelled CLI and GUI run is given, in seconds.
RunSeconds == 10

\* Settings of the modelled runs: the time step in ms, the trip temperature
\* (420 is the default, 303 is reached within the run) and the seed.
DtMsChoices == {50, 200}

TripTempChoices == {F(420), F(303)}

SeedChoices == {12345, 7}

\* fresh is history kept for the runs of the controller alone: no update call
\* was made since Pid::new or the last Pid::reset.  params is the PlantParams
\* of a run of the plant alone; the drivers pass PlantParams::default().  twin
\* holds the CLI run that is executed side by side with a GUI run, when there
\* is one.  The replay_ fields and last_error are the GUI's replay state.
NoRun ==
    [driver |-> "none", scenario |-> "Normal", seconds |-> 0, dt_ms |-> 0,
     setpoint |-> 0, meas |-> 0, trip_temp |-> 0, seed |-> 0, dt_s |-> 0,
     dt_bits |-> BinZero, steps |-> 0, k |-> 0,
     t |-> BinZero, running |-> FALSE, done |-> FALSE, plant_steps |-> 0,
     fresh |-> TRUE, params |-> DefaultPlantParams, twin |-> <<>>,
     replay_loaded |-> FALSE, replay_all |-> <<>>, replay_pos |-> 0,
     replay_playing |-> FALSE, replay_speed |-> 50, replay_reason |-> "None",
     last_error |-> "None"]

\* The state main reaches before its loop (driver "cli") and the state of the
\* GUI after its settings were chosen and Reset was pressed (driver "gui").
StartRun(d, sc, dt_ms, trip, seed) ==
    FreshRun([s_cfg |-> DefaultSafetyConfig, s_state |-> DefaultSafetyState,
              temps |-> <<>>, x |-> DefaultPlantState, pid |-> PidNew(DefaultPidConfig),
              u |-> <<>>, sensors |-> <<SensorNew(0), SensorNew(0), SensorNew(0)>>,
              run |-> [NoRun EXCEPT !.driver = d, !.scenario = sc,
                                    !.seconds = F(RunSeconds), !.dt_ms = dt_ms,
                                    !.setpoint = F(350), !.trip_temp = trip, !.seed = seed],
              samples |-> <<>>])

\* The state overtemp_trips_scram reaches before its loop.
StartTest ==
    [s_cfg |-> [DefaultSafetyConfig EXCEPT !.trip_temp_c = F(420)],
     s_state |-> DefaultSafetyState, temps |-> <<>>,
     x |-> [DefaultPlantState EXCEPT !.coolant = 150, !.power = F(1)],
     pid |-> PidNew(DefaultPidConfig), u |-> <<>>,
     sensors |-> <<SensorNew(1), SensorNew(2), SensorNew(3)>>,
     run |-> [NoRun EXCEPT !.driver = "test", !.dt_s = 50, !.steps = 400],
     samples |-> <<>>]

InitDriver ==
    \E w \in {StartTest} \cup
             {StartRun(d, sc, dt, trip, seed) :
                 d \in {"cli", "gui"}, sc \in Scenarios, dt \in DtMsChoices,
                 trip \in TripTempChoices, seed \in SeedChoices} :
        /\ s_cfg = w.s_cfg /\ s_state = w.s_state /\ temps = w.temps /\ x = w.x
        /\ pid = w.pid /\ u = w.u /\ sensors = w.sensors /\ run = w.run
        /\ samples = w.samples

\* main: one iteration of the loop.
CliTick ==
    /\ run.driver = "cli" /\ ~run.done /\ run.k < run.steps
    /\ Becomes(cli_tick(World))

\* GUI: the Step button, enabled in live mode.
GuiStep ==
    /\ run.driver = "gui" /\ ~run.replay_loaded
    /\ Becomes(step_once_live(World))

\* GUI: one frame while running in live mode.
GuiFrame ==
    /\ run.driver = "gui" /\ run.running /\ ~run.replay_loaded
    /\ Becomes(LiveFrame(World, 5))

\* GUI: the Run/Pause button, enabled in live mode.
GuiRun ==
    /\ run.driver = "gui" /\ ~run.replay_loaded
    /\ Becomes(run_button(World))

\* GUI: the Reset button.
GuiReset ==
    /\ run.driver = "gui"
    /\ Becomes(app_reset(World))

\* GUI: another scenario is selected, in live mode.
GuiScenario ==
    /\ run.driver = "gui" /\ ~run.replay_loaded
    /\ \E sc \in Scenarios \ {run.scenario} :
           Becomes(FreshRun([World EXCEPT !.run.scenario = sc]))

\* overtemp_trips_scram: one iteration of the loop.
TestTick ==
    /\ run.driver = "test" /\ ~run.done /\ run.k < run.steps
    /\ Becomes(test_tick(World))

NextDriver ==
    \/ CliTick
    \/ GuiStep
    \/ GuiFrame
    \/ GuiRun
    \/ GuiReset
    \/ GuiScenario
    \/ TestTick

SpecDriver == InitDriver /\ [][NextDriver]_vars

\* ------------------------------------------- claims about the drivers

\* C6 as stated -- the over-temperature scenario of overtemp_trips_scram ends
\* its 400-tick loop with scram = true and reason OverTemp.
C6_OverTempScenarioTrips ==
    (run.driver = "test" /\ run.done) => (s_state.scram /\ s_state.reason = "OverTemp")

\* C7 as stated -- once the monitor has latched a trip in a run, the driver
\* performs no further plant integration step and emits no further sample for
\* that run (a step that starts a new run resets the monitor).
C7_NoTickAfterTrip ==
    [][(s_state.scram /\ s_state'.scram) =>
         (run'.plant_steps = run.plant_steps /\ Len(samples') = Len(samples))]_vars

\* C8 -- every emitted sample with scram = true has power = 0, and a tick of
\* the CLI or the GUI that ends tripped ran the plant step with power 0 and left
\* the controller as it was.
C8_ActuationOffWhenTripped ==
    /\ [](\A i \in 1..Len(samples) : samples[i].scram => samples[i].power = 0)
    /\ [][(/\ run.driver \in {"cli", "gui"}
           /\ Len(samples') = Len(samples) + 1
           /\ s_state'.scram)
          => (pid' = pid /\ u' = u /\ x'.power = 0)]_vars

\* C8's case: a run whose controller drove the plant at a positive power and
\* whose last sample, emitted on a tripped tick, has power 0.
C8_Witness ==
    /\ run.driver \in {"cli", "gui"}
    /\ Len(samples) >= 2
    /\ samples[Len(samples)].scram
    /\ samples[Len(samples)].power = 0
    /\ samples[Len(samples) - 1].power > 0
    /\ pid.prev_error # <<>>

\* ------------------------------------- the channels and the monitor

\* How many ticks a modelled run of the channels takes.
MaxReads == 3

FaultChoices ==
    {NoFault, Stuck(F(500)), Bias(F(20)), Bias(F(11)), Drift(F(10)),
     DropoutEvery(1), DropoutEvery(2)}

NoiseChoices == {0, 250}

SeedTriples == {<<1, 2, 3>>, <<4, 9, 14>>}

\* True temperatures the plant is at when the channels are read: well below
\* the default trip temperature, half and three quarters of a degree below
\* it, and above it.
TrueTemps == {F(300), F(420) - 750, F(420) - 500, F(425)}

\* Three sensors set up by a caller: a fault per channel, one noise level.
ChannelSetup(seeds, faults, std) ==
    [i \in 1..3 |-> [SensorNew(seeds[i]) EXCEPT !.fault = faults[i], !.noise_std = std]]

InitChannels ==
    /\ \E seeds \in SeedTriples, std \in NoiseChoices,
          faults \in FaultChoices \X FaultChoices \X FaultChoices :
           sensors = ChannelSetup(seeds, faults, std)
    /\ s_cfg = DefaultSafetyConfig
    /\ s_state = DefaultSafetyState
    /\ temps = <<>>
    /\ IdlePlant /\ IdlePid
    /\ run = [NoRun EXCEPT !.driver = "channels", !.dt_s = 50]
    /\ samples = <<>>

\* With rd the result of the three reads: evaluate on the readings.
ChannelEvaluate(rd) ==
    /\ sensors' = rd[1]
    /\ temps' = rd[2]
    /\ s_state' = evaluate(s_cfg, s_state, rd[2])

\* One tick of a caller's loop: the plant is at some true temperature, the
\* three channels are read and the monitor evaluates the readings.
ChannelTick ==
    /\ run.driver = "channels" /\ run.k < MaxReads
    /\ \E tt \in TrueTemps :
           /\ x' = [x EXCEPT !.temp_c = tt]
           /\ ChannelEvaluate(ReadSensors(sensors, tt, run.dt_s))
    /\ run' = [run EXCEPT !.k = run.k + 1]
    /\ UNCHANGED <<s_cfg, pid, u, samples>>

NextChannels == ChannelTick

SpecChannels == InitChannels /\ [][NextChannels]_vars

\* The largest magnitude of a channel's noise.
NoiseBound(s) == s.noise_std * NoiseSigmas

\* C9 -- Dropout scenario: with one channel on DropoutEvery{1} and the other
\* two readings valid, an armed monitor does not trip with SensorInvalid; if
\* one of the other two channels carries a Bias larger than max_sensor_delta_c
\* plus the two channels' noise and the third is fault-free, it trips with
\* SensorDisagree.
C9_DropoutScenario ==
    [][\A d \in 1..3 :
         (/\ ~s_state.scram
          /\ sensors[d].fault = DropoutEvery(1)
          /\ \A j \in (1..3) \ {d} : ValidReading(temps'[j]))
         => /\ ~(s_state'.scram /\ s_state'.reason = "SensorInvalid")
            /\ \A j \in (1..3) \ {d} : \A k \in (1..3) \ {d, j} :
                 (/\ sensors[j].fault.kind = "Bias"
                  /\ sensors[j].fault.value >
                        s_cfg.max_sensor_delta_c + NoiseBound(sensors[j]) + NoiseBound(sensors[k])
                  /\ sensors[k].fault = NoFault)
                 => (s_state'.scram /\ s_state'.reason = "SensorDisagree")]_vars

\* C9's case: a noisy run with one channel always dropping out, one biased by
\* 20 and one healthy, tripped on SensorDisagree by two valid readings.
C9_Witness ==
    /\ run.driver = "channels"
    /\ Tripped("SensorDisagree")
    /\ \E d \in 1..3 : \E j \in (1..3) \ {d} : \E k \in (1..3) \ {d, j} :
         /\ sensors[d].fault = DropoutEvery(1) /\ temps[d] = NAN
         /\ sensors[j].fault = Bias(F(20)) /\ sensors[j].noise_std > 0
         /\ sensors[k].fault = NoFault
         /\ ValidReading(temps[j]) /\ ValidReading(temps[k])

\* ------------------------------------------------ the controller alone

\* How many update calls a modelled run of the controller makes.
MaxUpdates == 3

\* The default configuration, one with a derivative gain of 0.01, and one with
\* that gain and output bounds wide enough to leave most outputs unclamped.
PidConfigs ==
    {DefaultPidConfig,
     [DefaultPidConfig EXCEPT !.kd = 10],
     [DefaultPidConfig EXCEPT !.kd = 10, !.out_min = -F(100), !.out_max = F(100)]}

\* A finite value of more than half the largest finite magnitude (as 1e308 is
\* in f64): the difference of Big and -Big overflows.
Big == F(1500)

Setpoints == {F(350), Big}

Measurements == {F(300), F(400), -Big}

\* dt: zero, the smallest positive value, and 0.05.
TimeSteps == {0, 1, 50}

InitPid ==
    /\ pid \in {PidNew(c) : c \in PidConfigs}
    /\ u = <<>>
    /\ run = [NoRun EXCEPT !.driver = "pid"]
    /\ s_cfg = DefaultSafetyConfig /\ s_state = DefaultSafetyState /\ temps = <<>>
    /\ IdlePlant /\ IdleSensors /\ samples = <<>>

\* With up the result of the call: the controller after it and its result.
UpdateResult(up) == pid' = up[1] /\ u' = <<up[2]>>

\* One call of Pid::update with a finite setpoint and measurement and dt >= 0.
Update ==
    /\ run.driver = "pid" /\ run.k < MaxUpdates
    /\ \E sp \in Setpoints, m \in Measurements, dt \in TimeSteps :
           /\ UpdateResult(update(pid, sp, m, dt))
           /\ run' = [run EXCEPT !.k = run.k + 1, !.setpoint = sp, !.meas = m, !.dt_s = dt,
                                  !.fresh = FALSE]
    /\ UNCHANGED <<s_cfg, s_state, temps, x, sensors, samples>>

\* One call of Pid::reset.
Reset ==
    /\ run.driver = "pid"
    /\ pid' = reset(pid)
    /\ run' = [run EXCEPT !.fresh = TRUE]
    /\ UNCHANGED <<s_cfg, s_state, temps, x, u, sensors, samples>>

NextPid == Update \/ Reset

SpecPid == InitPid /\ [][NextPid]_vars

\* C10 as stated -- PID saturation: every value update returns lies in
\* [out_min, out_max] inclusive.
C10_PidSaturation ==
    u # <<>> =>
        (/\ u[1] \notin {NAN, INFINITY, NEG_INFINITY}
         /\ pid.cfg.out_min <= u[1]
         /\ u[1] <= pid.cfg.out_max)

\* ------------------------------------- a controller held on one error

\* How many update calls a held run makes: more than the 50 calls an
\* undecayed integral needs to pass 49 * error * dt.
MaxHoldTicks == 60

\* Measurements of a held run against the setpoint 350: errors of 100 and 50
\* (the output saturates high from the first call), 10 (it does not), 0 and
\* -100 (it saturates low).
HeldMeasurements == {F(250), F(300), F(340), F(350), F(450)}

\* dt of a held run: 0.05 and 0.2.
HeldTimeSteps == {50, 200}

\* A fresh controller about to be driven with one setpoint, one measurement
\* and one dt on every call.
InitHold ==
    /\ pid \in {PidNew(c) : c \in PidConfigs}
    /\ u = <<>>
    /\ \E m \in HeldMeasurements, dt \in HeldTimeSteps :
           run = [NoRun EXCEPT !.driver = "hold", !.setpoint = F(350), !.meas = m, !.dt_s = dt]
    /\ s_cfg = DefaultSafetyConfig /\ s_state = DefaultSafetyState /\ temps = <<>>
    /\ IdlePlant /\ IdleSensors /\ samples = <<>>

\* One more call of Pid::update with the run's inputs.
Hold ==
    /\ run.driver = "hold" /\ run.k < MaxHoldTicks
    /\ UpdateResult(update(pid, run.setpoint, run.meas, run.dt_s))
    /\ run' = [run EXCEPT !.k = run.k + 1, !.fresh = FALSE]
    /\ UNCHANGED <<s_cfg, s_state, temps, x, sensors, samples>>

NextHold == Hold

SpecHold == InitHold /\ [][NextHold]_vars

\* The error of the held run and its product with dt.
HeldError == FSub(run.setpoint, run.meas)

HeldStep == FMul(HeldError, run.dt_s)

\* The held error is positive and saturates the output at out_max from the
\* first call on: kp * e + ki * (e * dt) > out_max.
HeldSaturatesHigh ==
    /\ FGt(HeldError, 0)
    /\ FGt(FAdd(FMul(pid.cfg.kp, HeldError), FMul(pid.cfg.ki, HeldStep)), pid.cfg.out_max)

\* C11 -- Anti-windup bound: under a constant positive error that saturates
\* the output at out_max and a constant dt > 0, the integral started from 0
\* never exceeds 49 * e * dt, after any number of calls.
C11_AntiWindupBound ==
    (run.driver = "hold" /\ HeldSaturatesHigh)
        => (is_finite(pid.integral) /\ FLe(pid.integral, FMul(F(49), HeldStep)))

\* C11's case: 50 or more saturated calls, the integral past 30 * e * dt.
C11_Witness ==
    /\ run.driver = "hold" /\ HeldSaturatesHigh
    /\ run.k >= 50
    /\ u = <<pid.cfg.out_max>>
    /\ FGt(pid.integral, FMul(F(30), HeldStep))

\* ------------------------------- the channels: the over-temperature trip

\* Every channel is fault-free.
FaultFree == \A i \in 1..3 : sensors[i].fault = NoFault

\* The largest noise bound among the three channels.
NoiseBoundAll ==
    LET b == [i \in 1..3 |-> NoiseBound(sensors[i])]
    IN  IF b[1] >= b[2] /\ b[1] >= b[3] THEN b[1] ELSE IF b[2] >= b[3] THEN b[2] ELSE b[3]

\* C13 -- True temperature at an over-temperature trip: with three fault-free
\* sensors whose noise is bounded by B, a tick on which the monitor trips with
\* reason OverTemp read a true temperature of at least trip_temp_c - B.
C13_TrueTempAtOverTempTrip ==
    [][(/\ FaultFree
        /\ ~s_state.scram
        /\ s_state'.scram /\ s_state'.reason = "OverTemp")
       => FGe(x'.temp_c, FSub(s_cfg.trip_temp_c, NoiseBoundAll))]_vars

\* C13's case: a noisy fault-free run tripped on OverTemp while the true
\* temperature was below the trip temperature.
C13_Witness ==
    /\ run.driver = "channels"
    /\ FaultFree
    /\ sensors[1].noise_std > 0
    /\ Tripped("OverTemp")
    /\ FLt(x.temp_c, s_cfg.trip_temp_c)
    /\ Cardinality({i \in 1..3 : FGe(temps[i], s_cfg.trip_temp_c)}) >= 2

\* ------------------------------------------------- one sensor alone

\* How many read_temp calls a modelled run of one sensor makes.
MaxSensorReads == 4

\* Faults a caller assigns to the sensor's pub fault field.
SensorFaults ==
    {NoFault, Stuck(F(500)), Bias(F(20)), Drift(F(10)),
     DropoutEvery(0), DropoutEvery(1), DropoutEvery(2), DropoutEvery(3)}

SensorSeeds == {1, 4}

\* True temperatures and dt values handed to read_temp.
SensorTemps == {F(300), F(425)}

SensorTimeSteps == {50, 200}

\* A sensor as Sensor::new leaves it.
InitSensor ==
    /\ \E seed \in SensorSeeds : sensors = <<SensorNew(seed)>>
    /\ temps = <<>>
    /\ run = [NoRun EXCEPT !.driver = "sensor"]
    /\ s_cfg = DefaultSafetyConfig /\ s_state = DefaultSafetyState
    /\ IdlePlant /\ IdlePid /\ samples = <<>>

\* With rd the result of the call: the sensor after it and its reading.
ReadResult(rd) == sensors' = <<rd[1]>> /\ temps' = <<rd[2]>>

\* One call of Sensor::read_temp; x.temp_c and run.dt_s record its arguments.
Read ==
    /\ run.driver = "sensor" /\ run.k < MaxSensorReads
    /\ \E tt \in SensorTemps, dt \in SensorTimeSteps :
           /\ ReadResult(read_temp(sensors[1], tt, dt))
           /\ x' = [x EXCEPT !.temp_c = tt]
           /\ run' = [run EXCEPT !.k = run.k + 1, !.dt_s = dt]
    /\ UNCHANGED <<s_cfg, s_state, pid, u, samples>>

\* An assignment to the sensor's pub field fault.
SetFault ==
    /\ run.driver = "sensor"
    /\ \E f \in SensorFaults : sensors' = <<[sensors[1] EXCEPT !.fault = f]>>
    /\ UNCHANGED <<s_cfg, s_state, temps, x, pid, u, run, samples>>

\* An assignment to the sensor's pub field noise_std.
SetNoise ==
    /\ run.driver = "sensor"
    /\ \E std \in NoiseChoices : sensors' = <<[sensors[1] EXCEPT !.noise_std = std]>>
    /\ UNCHANGED <<s_cfg, s_state, temps, x, pid, u, run, samples>>

NextSensor == Read \/ SetFault \/ SetNoise

SpecSensor == InitSensor /\ [][NextSensor]_vars

\* The step is a call of read_temp.
IsRead == run.driver = "sensor" /\ run'.k = run.k + 1

\* The noise the call adds to its base value: a draw when noise_std > 0.
NoiseOf(s) == IF s.noise_std > 0 THEN NormalSample(s.noise_std, s.rng) ELSE 0

\* C14 -- Dropout cadence and tick counter: every read call adds exactly 1 to
\* the tick counter, NaN returns included, so the counter is the number of
\* reads since creation; under DropoutEvery{n}, n > 0, the k-th read returns
\* NaN exactly when k is a multiple of n, whatever the noise, and every other
\* read returns what the none fault returns: the true value plus the noise.
C14_DropoutCadence ==
    [][IsRead =>
         /\ sensors'[1].step_count = sensors[1].step_count + 1
         /\ sensors'[1].step_count = run'.k
         /\ (sensors[1].fault.kind = "DropoutEvery" /\ sensors[1].fault.value > 0)
            => /\ (temps'[1] = NAN) <=> (run'.k % sensors[1].fault.value = 0)
               /\ (temps'[1] # NAN)
                  => temps'[1] = FAdd(x'.temp_c, NoiseOf(sensors[1]))]_vars

\* C14's case: under DropoutEvery{2} with noise, the third read returned a
\* noisy value after the second returned NaN and was counted.
C14_Witness ==
    /\ run.driver = "sensor" /\ run.k = 3
    /\ sensors[1].fault = DropoutEvery(2)
    /\ sensors[1].noise_std > 0
    /\ sensors[1].step_count = 3
    /\ temps[1] \notin {NAN, x.temp_c}

\* C15 -- Fault base values with noise disabled: with noise_std 0 a read
\* returns exactly true_value under the none fault, exactly true_value +
\* offset under bias(offset), and exactly v under stuck(v) whatever the true
\* value, on every call.
C15_FaultBaseValues ==
    [][(IsRead /\ sensors[1].noise_std = 0) =>
         /\ sensors[1].fault.kind = "None" => temps'[1] = x'.temp_c
         /\ sensors[1].fault.kind = "Bias"
            => temps'[1] = FAdd(x'.temp_c, sensors[1].fault.value)
         /\ sensors[1].fault.kind = "Stuck" => temps'[1] = sensors[1].fault.value]_vars

\* C15's case: a noiseless sensor stuck at 500 read 500 on a later call while
\* the true temperature was 300.
C15_Witness ==
    /\ run.driver = "sensor" /\ run.k >= 2
    /\ sensors[1].noise_std = 0
    /\ sensors[1].fault = Stuck(F(500))
    /\ x.temp_c = F(300)
    /\ temps = <<F(500)>>

\* C20 -- Drift offset: under drift(rate) with noise disabled, the k-th read
\* since the sensor's creation, every earlier read counted whatever fault it
\* ran under, returns true_value + rate * k * dt for the dt of that call.
C20_DriftOffset ==
    [][(IsRead /\ sensors[1].noise_std = 0 /\ sensors[1].fault.kind = "Drift") =>
         temps'[1] = FAdd(x'.temp_c,
                          FMul(FMul(sensors[1].fault.value, F(run'.k)), run'.dt_s))]_vars

\* C20's case: the third read, with dt 0.2 under drift(10), returned the true
\* temperature plus 6.
C20_Witness ==
    /\ run.driver = "sensor" /\ run.k = 3 /\ run.dt_s = 200
    /\ sensors[1].noise_std = 0
    /\ sensors[1].fault = Drift(F(10))
    /\ sensors[1].step_count = 3
    /\ temps = <<x.temp_c + F(6)>>

\* --------------- the controller alone: reset, order of operations, derivative

\* The step is a call of Pid::reset, or of Pid::update.
IsReset == run.driver = "pid" /\ run'.k = run.k /\ run'.fresh

IsUpdate == run.driver = "pid" /\ run'.k = run.k + 1

\* C16 -- Controller reset: after any sequence of update calls, reset sets
\* the integral to 0 and the previous error to absent and leaves the
\* configuration alone: the controller is the one Pid::new builds from that
\* configuration, so it answers later update calls as a fresh one does.
C16_ControllerReset ==
    [][IsReset =>
         /\ pid'.integral = 0
         /\ pid'.prev_error = <<>>
         /\ pid'.cfg = pid.cfg
         /\ pid' = PidNew(pid.cfg)]_vars

\* C16's case: a reset after two or more updates, the last of which returned
\* a value.
C16_Witness ==
    /\ run.driver = "pid" /\ run.k >= 2 /\ run.fresh
    /\ u # <<>>
    /\ pid = PidNew(pid.cfg)

\* The error of the call being made and of the call before it.
CallError == FSub(run'.setpoint, run'.meas)

PrevCallError == FSub(run.setpoint, run.meas)

\* kp * error + ki * integral + kd * deriv, as the code parenthesises it.
RawOutput(cfg, error, integral, deriv) ==
    FAdd(FAdd(FMul(cfg.kp, error), FMul(cfg.ki, integral)), FMul(cfg.kd, deriv))

Clamped(cfg, raw) ==
    IF FGt(raw, cfg.out_max) THEN cfg.out_max
    ELSE IF FLt(raw, cfg.out_min) THEN cfg.out_min
    ELSE raw

\* The derivative from the controller's stored previous error.
StoredDerivative(error) ==
    IF pid.prev_error # <<>> /\ FGt(run'.dt_s, 0)
    THEN FDiv(FSub(error, pid.prev_error[1]), run'.dt_s)
    ELSE 0

\* C17 -- PID order of operations: an update adds error * dt to the integral,
\* computes the raw output from that accumulated, undecayed integral, clamps
\* it, and multiplies the integral by 0.98 exactly when the raw output was
\* above out_max with error > 0 or below out_min with error < 0; otherwise the
\* integral stays at its accumulated value; previous_error becomes the
\* current error on every call.
C17_OrderOfOperations ==
    [][IsUpdate =>
         \A error \in {CallError} :
         \A accumulated \in {FAdd(pid.integral, FMul(error, run'.dt_s))} :
         \A raw \in {RawOutput(pid.cfg, error, accumulated, StoredDerivative(error))} :
         \A decay \in {\/ FGt(raw, pid.cfg.out_max) /\ FGt(error, 0)
                       \/ FLt(raw, pid.cfg.out_min) /\ FLt(error, 0)} :
             /\ u' = <<Clamped(pid.cfg, raw)>>
             /\ pid'.integral = IF decay THEN FMul(accumulated, Decay) ELSE accumulated
             /\ pid'.prev_error = <<error>>
             /\ pid'.cfg = pid.cfg]_vars

\* C17's case: a second update whose raw output passed out_max with a
\* positive error, so that the integral it leaves is the decayed sum.
C17_Witness ==
    /\ run.driver = "pid" /\ run.k = 2 /\ ~run.fresh
    /\ u = <<pid.cfg.out_max>>
    /\ pid.prev_error = <<F(50)>>
    /\ run.dt_s = 50
    /\ pid.integral = FMul(FAdd(FMul(FAdd(0, F(50) \div 20), Decay), F(50) \div 20), Decay)

\* The derivative the claim describes, from the history of the calls.
HistoryDerivative(error) ==
    IF run.fresh \/ run'.dt_s = 0
    THEN 0
    ELSE FDiv(FSub(error, PrevCallError), run'.dt_s)

\* C18 -- PID derivative term: the derivative an update uses is 0 on the first
\* update after construction or reset and on any update with dt = 0, and
\* (error - previous_error) / dt otherwise, previous_error being the error of
\* the update call just before; the value returned is the clamped
\* kp * error + ki * integral + kd * that derivative.
C18_DerivativeTerm ==
    [][IsUpdate =>
         \A error \in {CallError} :
         \A accumulated \in {FAdd(pid.integral, FMul(error, run'.dt_s))} :
         \A deriv \in {HistoryDerivative(error)} :
         \A raw \in {RawOutput(pid.cfg, error, accumulated, deriv)} :
             u' = <<Clamped(pid.cfg, raw)>>]_vars

\* C18's case: an unclamped output with a derivative gain, on an update that
\* followed one with another error: error -50 after error 50 at dt 0.05, so
\* kd * deriv = 0.01 * -2000.
C18_Witness ==
    /\ run.driver = "pid" /\ run.k >= 2 /\ ~run.fresh
    /\ pid.cfg.kd = 10
    /\ run.dt_s = 50
    /\ pid.prev_error = <<-F(50)>>
    /\ u # <<>> /\ is_finite(u[1])
    /\ u[1] > pid.cfg.out_min /\ u[1] < -F(20)

\* ------------------------------------- the monitor: threshold boundaries

\* A finite reading strictly inside the valid range, or exactly on one of its
\* bounds.
InsideRange(v) ==
    /\ v \notin {NAN, INFINITY, NEG_INFINITY}
    /\ s_cfg.valid_range_c[1] < v
    /\ v < s_cfg.valid_range_c[2]

OnRangeBound(v) == v = s_cfg.valid_range_c[1] \/ v = s_cfg.valid_range_c[2]

\* C19 -- Threshold boundaries of evaluate: readings exactly on the lower or
\* upper bound of the valid range count as valid; a spread of the valid
\* readings exactly equal to max_sensor_delta_c does not trip on disagreement,
\* only a strictly larger one does; a valid reading exactly equal to
\* trip_temp_c counts as over threshold.
C19_ThresholdBoundaries ==
    [][~s_state.scram =>
         LET t        == temps'
             counted  == {i \in 1..3 : InsideRange(t[i]) \/ OnRangeBound(t[i])}
             atOrOver == {i \in counted : t[i] = s_cfg.trip_temp_c \/ t[i] > s_cfg.trip_temp_c}
             majority == Cardinality(counted) >= 2
         IN  /\ majority => s_state'.reason # "SensorInvalid"
             /\ (majority /\ SpreadValid(t) = s_cfg.max_sensor_delta_c)
                => s_state'.reason # "SensorDisagree"
             /\ s_state'.reason = "SensorDisagree"
                => SpreadValid(t) > s_cfg.max_sensor_delta_c
             /\ (/\ majority
                 /\ SpreadValid(t) <= s_cfg.max_sensor_delta_c
                 /\ Cardinality(atOrOver) >= 2)
                => (s_state'.scram /\ s_state'.reason = "OverTemp")]_vars

\* C19's case: two readings exactly at the trip temperature and a third
\* exactly max_sensor_delta_c below them tripped on OverTemp, not on
\* disagreement.
C19_Witness ==
    /\ run.driver = "none"
    /\ Tripped("OverTemp")
    /\ temps = <<FSub(s_cfg.trip_temp_c, s_cfg.max_sensor_delta_c),
                 s_cfg.trip_temp_c, s_cfg.trip_temp_c>>

\* ---------------------------------------------------- the plant alone

\* How many step calls a modelled run of the plant makes.
MaxPlantSteps == 3

\* PlantParams of the run: the default ones, and degenerate ones without
\* thermal mass.
PlantParamChoices ==
    {DefaultPlantParams, [DefaultPlantParams EXCEPT !.thermal_mass = 0]}

\* Temperatures a caller starts the plant at.
PlantTemps == {F(25), F(300), F(2000)}

\* <<power, coolant>> fractions a caller sets before a step: inside 0..=1,
\* above 1, below 0, and no cooling at all.
PlantInputs == {<<0, 500>>, <<F(1), 150>>, <<1500, -500>>, <<F(1), 0>>}

\* dt of a step: zero, 0.05 and 0.2.
PlantTimeSteps == {0, 50, 200}

InitPlant ==
    /\ \E t \in PlantTemps, i \in PlantInputs :
           x = [temp_c |-> t, power |-> i[1], coolant |-> i[2]]
    /\ \E p \in PlantParamChoices : run = [NoRun EXCEPT !.driver = "plant", !.params = p]
    /\ s_cfg = DefaultSafetyConfig /\ s_state = DefaultSafetyState /\ temps = <<>>
    /\ IdlePid /\ IdleSensors /\ samples = <<>>

\* One call of PlantState::step; run.dt_s records its dt.
PlantStep ==
    /\ run.driver = "plant" /\ run.k < MaxPlantSteps
    /\ \E dt \in PlantTimeSteps :
           /\ x' = step(x, run.params, dt)
           /\ run' = [run EXCEPT !.k = run.k + 1, !.dt_s = dt]
    /\ UNCHANGED <<s_cfg, s_state, temps, pid, u, sensors, samples>>

\* The caller assigns the pub fields power and coolant.
SetInputs ==
    /\ run.driver = "plant"
    /\ \E i \in PlantInputs : x' = [x EXCEPT !.power = i[1], !.coolant = i[2]]
    /\ UNCHANGED <<s_cfg, s_state, temps, pid, u, sensors, run, samples>>

NextPlant == PlantStep \/ SetInputs

SpecPlant == InitPlant /\ [][NextPlant]_vars

\* The step is a call of PlantState::step.
IsPlantStep == run.driver = "plant" /\ run'.k = run.k + 1

\* temperature + ((k_power * power - k_cool * coolant * (temperature -
\* ambient)) / thermal_mass) * dt, from the values held before the call.
EulerTemp ==
    FAdd(x.temp_c,
         FMul(FDiv(FSub(FMul(run.params.k_power, x.power),
                        FMul(FMul(run.params.k_cool, x.coolant),
                             FSub(x.temp_c, run.params.ambient_c))),
                   run.params.thermal_mass),
              run'.dt_s))

\* C21 as stated -- Plant step effect and frame: one step call changes the
\* temperature by exactly ((k_power * power - k_cool * coolant * (temperature
\* - ambient)) / thermal_mass) * dt from the values held before the call, and
\* leaves power, coolant and the parameters unchanged, unclamped.
C21_PlantStepEffect_Original ==
    [][IsPlantStep =>
         \A computed \in {EulerTemp} :
             /\ x'.temp_c = computed
             /\ x'.power = x.power /\ x'.coolant = x.coolant
             /\ run'.params = run.params]_vars

\* C21 as amended -- the same, for every step whose computed temperature is a
\* number; when it is not-a-number the stored temperature is the ambient one.
C21_PlantStepEffect ==
    [][IsPlantStep =>
         \A computed \in {EulerTemp} :
             /\ computed # NAN => x'.temp_c = computed
             /\ computed = NAN => x'.temp_c = run.params.ambient_c
             /\ x'.power = x.power /\ x'.coolant = x.coolant
             /\ run'.params = run.params]_vars

\* C21's case: a step with default parameters, power 1.5 and coolant -0.5
\* (both outside 0..=1 and left there) that moved the temperature.
C21_Witness ==
    /\ run.driver = "plant" /\ run.k = 1 /\ run.dt_s = 200
    /\ run.params = DefaultPlantParams
    /\ x.power = 1500 /\ x.coolant = -500
    /\ x.temp_c \notin PlantTemps /\ is_finite(x.temp_c)

\* C22 -- Numerical-corruption guard: when the temperature a step computes is
\* not-a-number the stored temperature becomes the ambient one, so the
\* temperature is never not-a-number after a step.
C22_NanGuard ==
    [][IsPlantStep =>
         \A computed \in {EulerTemp} :
             /\ computed = NAN => x'.temp_c = run.params.ambient_c
             /\ x'.temp_c # NAN]_vars

\* C22's case: a plant without thermal mass, driven to an infinite
\* temperature, back at the ambient temperature after a later step.
C22_Witness ==
    /\ run.driver = "plant" /\ run.k >= 2
    /\ run.params.thermal_mass = 0
    /\ x.temp_c = run.params.ambient_c

\* ------------------------------------------- the drivers: the CLI's trace

\* ceil(seconds / dt) for a run of run.seconds seconds at run.dt_ms ms a tick.
RowBound == (run.seconds + run.dt_ms - 1) \div run.dt_ms

\* C23 -- Run termination and trace shape: a CLI run ends after at most
\* ceil(seconds / dt) trace rows (one row per iteration, the loop over once
\* that many were emitted or a row has scram = true); at most one row has
\* scram = true, it is the last one and carries a reason, and every earlier
\* row has scram = false and no reason.
C23_CliTraceShape ==
    run.driver = "cli" =>
        /\ Len(samples) = run.k
        /\ Len(samples) <= RowBound
        /\ Len(samples) = RowBound => run.done
        /\ \A i \in 1..Len(samples) :
             /\ i < Len(samples) => (~samples[i].scram /\ samples[i].reason = "None")
             /\ samples[i].scram <=> samples[i].reason # "None"
             /\ samples[i].scram => run.done

\* C23's case: a finished CLI run of several rows whose last row, and no
\* other, has scram = true, before the row bound was reached.
C23_Witness ==
    /\ run.driver = "cli" /\ run.done
    /\ Len(samples) >= 2 /\ Len(samples) < RowBound
    /\ samples[Len(samples)].scram
    /\ samples[Len(samples)].reason = "OverTemp"
    /\ ~samples[Len(samples) - 1].scram

\* ------------------------- the monitor: healthy channels around a true value

\* True temperatures and noise bounds B the readings are held against.
HealthyTemps ==
    {F(0), F(410), F(415), F(417) + 500, F(420), F(425), F(426), F(1995), F(2000)}

HealthyBounds == {0, 2500, F(5)}

\* The reading is the true temperature T with noise of magnitude at most B.
Healthy(v, T, B) ==
    /\ v \notin {NAN, INFINITY, NEG_INFINITY}
    /\ T - B <= v
    /\ v <= T + B

\* T is inside the valid range by a margin of B, and 2 * B <= max_sensor_delta_c.
HealthySetting(T, B) ==
    /\ 2 * B <= s_cfg.max_sensor_delta_c
    /\ s_cfg.valid_range_c[1] + B <= T
    /\ T <= s_cfg.valid_range_c[2] - B

\* C24 -- Single-fault tolerance of the trip: with the monitor armed, two
\* channels reading the true temperature T within B, 2 * B <=
\* max_sensor_delta_c, T >= trip_temp_c + B and inside the valid range by B,
\* evaluate trips on that tick whatever the third channel delivers.
C24_SingleFaultTolerance ==
    [][(~s_state.scram /\ ~s_state'.scram) =>
         \A T \in HealthyTemps, B \in HealthyBounds :
             (HealthySetting(T, B) /\ T >= s_cfg.trip_temp_c + B)
             => ~\E i \in 1..3, j \in 1..3 :
                    /\ i # j
                    /\ Healthy(temps'[i], T, B)
                    /\ Healthy(temps'[j], T, B)]_vars

\* C24's case: tripped with two healthy readings 5 apart around 417.5 under
\* the trip temperature 415, the third channel delivering NaN.
C24_Witness ==
    /\ run.driver = "none"
    /\ s_cfg.trip_temp_c = F(415)
    /\ temps = <<F(415), NAN, F(420)>>
    /\ Tripped("OverTemp")

\* C25 -- No spurious trip with healthy sensors: with the monitor armed, all
\* three channels reading the true temperature T within B, 2 * B <=
\* max_sensor_delta_c, T < trip_temp_c - B and inside the valid range by B,
\* evaluate leaves the monitor armed with no reason.
C25_NoSpuriousTrip ==
    [][~s_state.scram =>
         \A T \in HealthyTemps, B \in HealthyBounds :
             (/\ HealthySetting(T, B)
              /\ T < s_cfg.trip_temp_c - B
              /\ \A i \in 1..3 : Healthy(temps'[i], T, B))
             => (~s_state'.scram /\ s_state'.reason = "None")]_vars

\* C25's case: an armed monitor after readings of 410, 415 and 410, within 5
\* of a true 410 under the trip temperature 420.
C25_Witness ==
    /\ run.driver = "none"
    /\ s_cfg.trip_temp_c = F(420)
    /\ temps = <<F(410), F(415), F(410)>>
    /\ ~s_state.scram /\ s_state.reason = "None"

\* ------------------------------------------------------------ C26

\* The readings of ys that are finite numbers.
FiniteChannels(ys) == {i \in 1..3 : is_finite(ys[i])}

\* The mean of the finite readings of ys, summed in channel order.
FiniteMean(ys) ==
    LET term(i) == IF i \in FiniteChannels(ys) THEN ys[i] ELSE 0
    IN  FDiv(FAdd(FAdd(FAdd(0, term(1)), term(2)), term(3)),
             F(Cardinality(FiniteChannels(ys))))

\* C26 -- Fused measurement never falls back to ground truth: a CLI or GUI
\* tick that leaves the monitor armed had at least 2 finite readings out of 3,
\* and the controller was updated with the mean of the finite readings (its
\* stored error is the setpoint minus that mean), never with the plant's true
\* temperature.
C26_FusedMeasurementNoFallback ==
    [][(Len(samples') > Len(samples) /\ ~s_state'.scram) =>
         /\ Cardinality(FiniteChannels(temps')) >= 2
         /\ pid'.prev_error = <<FSub(run'.setpoint, FiniteMean(temps'))>>]_vars

\* C26's case: an armed tick of a CLI or GUI run whose readings differ from
\* each other and whose mean differs from the true temperature the plant had
\* when they were taken.
C26_Witness ==
    /\ run.driver \in {"cli", "gui"}
    /\ samples # <<>> /\ ~s_state.scram
    /\ temps[1] # temps[2]
    /\ pid.prev_error = <<FSub(run.setpoint, FiniteMean(temps))>>
    /\ Len(samples) >= 2
    /\ FiniteMean(temps) # samples[Len(samples) - 1].true_temp

\* ------------------------------------------------------------ C27

\* A GUI live run and a CLI run with the same settings, side by side: every
\* tick of the GUI is accompanied by a loop iteration of the CLI, as long as
\* the CLI's loop has not ended.

\* The CLI started with the settings the GUI has.
TwinStart(w) ==
    StartRun("cli", w.run.scenario, w.run.dt_ms, w.run.trip_temp, w.run.seed)

\* Up to n further iterations of the CLI's loop.
RECURSIVE TwinAdvance(_, _)
TwinAdvance(c, n) ==
    IF n = 0 \/ c.run.done \/ c.run.k >= c.run.steps THEN c
    ELSE TwinAdvance(cli_tick(c), n - 1)

InitTwin ==
    \E w \in {StartRun("gui", sc, dt, trip, seed) :
                 sc \in Scenarios, dt \in DtMsChoices,
                 trip \in TripTempChoices, seed \in SeedChoices} :
        /\ s_cfg = w.s_cfg /\ s_state = w.s_state /\ temps = w.temps /\ x = w.x
        /\ pid = w.pid /\ u = w.u /\ sensors = w.sensors
        /\ run = [w.run EXCEPT !.twin = <<TwinStart(w)>>]
        /\ samples = w.samples

\* The Step button, and one iteration of the CLI.
TwinStep ==
    /\ run.twin # <<>>
    /\ Becomes([step_once_live(World) EXCEPT !.run.twin = <<TwinAdvance(run.twin[1], 1)>>])

\* One frame while running, and as many iterations of the CLI.
TwinFrame ==
    /\ run.twin # <<>> /\ run.running
    /\ Becomes([LiveFrame(World, 5) EXCEPT !.run.twin = <<TwinAdvance(run.twin[1], 5)>>])

\* The Run/Pause button: Run restarts the live run, and the CLI with it.
TwinRun ==
    /\ run.twin # <<>>
    /\ Becomes([run_button(World) EXCEPT
                   !.run.twin = IF run.running THEN run.twin ELSE <<TwinStart(World)>>])

\* The Reset button, and the CLI started again.
TwinReset ==
    /\ run.twin # <<>>
    /\ Becomes([app_reset(World) EXCEPT !.run.twin = <<TwinStart(World)>>])

NextTwin ==
    \/ TwinStep
    \/ TwinFrame
    \/ TwinRun
    \/ TwinReset

SpecTwin == InitTwin /\ [][NextTwin]_vars

\* The samples of s up to and including the first one with scram = true.
UpToFirstScram(s) ==
    IF \E i \in 1..Len(s) : s[i].scram
    THEN SubSeq(s, 1, CHOOSE i \in 1..Len(s) :
                          s[i].scram /\ \A j \in 1..(i - 1) : ~s[j].scram)
    ELSE s

\* The fields a CLI row and a GUI sample share, but for the time.
SameReadings(a, b) ==
    /\ a.true_temp = b.true_temp
    /\ a.s1 = b.s1 /\ a.s2 = b.s2 /\ a.s3 = b.s3
    /\ a.power = b.power /\ a.coolant = b.coolant
    /\ a.scram = b.scram

SameSample(a, b) == a.t = b.t /\ SameReadings(a, b)

\* C27 -- CLI and GUI live drivers agree: with the same scenario, seconds, dt,
\* setpoint, trip temperature and seed, the samples of the GUI's live run up
\* to and including its first sample with scram = true are, one for one, the
\* rows the CLI has produced: same time, true temperature, three readings,
\* power, coolant and scram.
C27_DriversAgree ==
    run.twin # <<>> =>
        /\ Len(UpToFirstScram(samples)) = Len(run.twin[1].samples)
        /\ \A i \in 1..Len(run.twin[1].samples) :
               SameSample(samples[i], run.twin[1].samples[i])

\* The same but for the time stamps: the runs themselves agree.
TwinReadingsAgree ==
    run.twin # <<>> =>
        /\ Len(UpToFirstScram(samples)) = Len(run.twin[1].samples)
        /\ \A i \in 1..Len(run.twin[1].samples) :
               SameReadings(samples[i], run.twin[1].samples[i])

\* ------------------------------------------------------------ GUI replay

\* A JSONL file: unreadable, or its lines, each of them blank, malformed or a
\* row of the CLI.
BlankLine == [kind |-> "blank"]

BadLine == [kind |-> "bad"]

\* The row of tick i as the CLI writes it at 50 ms a tick.
RowLine(i, scram, reason) ==
    [kind |-> "row",
     row |-> [t_s |-> BinMulInt(i, BinDivInt(50, 1000)), true_temp_c |-> F(300 + i),
              s1_c |-> F(300 + i), s2_c |-> F(300 + i) + 150, s3_c |-> F(300 + i) - 150,
              power |-> F(1), coolant |-> 200, scram |-> scram, reason |-> reason]]

\* The longest modelled trace.
MaxReplayRows == 5

ReplayFiles ==
    {[readable |-> FALSE, lines |-> <<>>],
     [readable |-> TRUE, lines |-> <<>>],
     [readable |-> TRUE, lines |-> <<BlankLine, BlankLine>>],
     [readable |-> TRUE, lines |-> <<RowLine(0, FALSE, "None"), BadLine,
                                      RowLine(1, FALSE, "None")>>],
     [readable |-> TRUE, lines |-> <<RowLine(0, FALSE, "None")>>],
     [readable |-> TRUE, lines |-> <<RowLine(0, FALSE, "None"), BlankLine,
                                      RowLine(1, FALSE, "None"),
                                      RowLine(2, TRUE, "SensorDisagree")>>],
     [readable |-> TRUE,
      lines |-> [i \in 1..MaxReplayRows |->
                    RowLine(i - 1, i = MaxReplayRows,
                            IF i = MaxReplayRows THEN "OverTemp" ELSE "None")]]}

\* The replay speeds the slider is set to, in samples per frame.
ReplaySpeeds == {1, 2, 50}

\* The Sample load_jsonl makes of a row.
SampleOf(row) ==
    [t |-> row.t_s, true_temp |-> row.true_temp_c, s1 |-> row.s1_c, s2 |-> row.s2_c,
     s3 |-> row.s3_c, power |-> row.power, coolant |-> row.coolant, scram |-> row.scram]

\* The loop of load_jsonl over the lines from i on: blank lines are skipped, a
\* malformed line ends the load, a row is pushed.
RECURSIVE ParseLines(_, _, _, _)
ParseLines(lines, i, loaded, first_reason) ==
    IF i > Len(lines) THEN [ok |-> TRUE, loaded |-> loaded, first_reason |-> first_reason]
    ELSE IF lines[i].kind = "blank" THEN ParseLines(lines, i + 1, loaded, first_reason)
    ELSE IF lines[i].kind = "bad"
    THEN [ok |-> FALSE, loaded |-> <<>>, first_reason |-> "None"]
    ELSE ParseLines(lines, i + 1, Append(loaded, SampleOf(lines[i].row)),
                    IF first_reason = "None" THEN lines[i].row.reason ELSE first_reason)

\* replay_speed.min(len).max(1)
InitialChunk(speed, len) ==
    IF speed < len THEN (IF speed < 1 THEN 1 ELSE speed)
    ELSE (IF len < 1 THEN 1 ELSE len)

enter_replay_samples_kept(w, loaded, first_reason) ==
    [clear_replay([w EXCEPT !.run.running = FALSE]) EXCEPT
        !.run.replay_loaded = TRUE,
        !.run.replay_reason = first_reason,
        !.run.replay_all = loaded,
        !.run.replay_playing = FALSE,
        !.samples = w.samples
                    \o SubSeq(loaded, 1, InitialChunk(w.run.replay_speed, Len(loaded))),
        !.run.replay_pos = InitialChunk(w.run.replay_speed, Len(loaded)),
        !.run.t = loaded[InitialChunk(w.run.replay_speed, Len(loaded))].t]

\* The end of load_jsonl, with a non-empty trace loaded: enter replay mode.
enter_replay(w, loaded, first_reason) ==
    [clear_replay([w EXCEPT !.run.running = FALSE]) EXCEPT
        !.run.replay_loaded = TRUE,
        !.run.replay_reason = first_reason,
        !.run.replay_all = loaded,
        !.run.replay_playing = FALSE,
        !.samples = SubSeq(loaded, 1, InitialChunk(w.run.replay_speed, Len(loaded))),
        !.run.replay_pos = InitialChunk(w.run.replay_speed, Len(loaded)),
        !.run.t = loaded[InitialChunk(w.run.replay_speed, Len(loaded))].t]

\* load_jsonl after the file was read, with p what the loop over its lines
\* returned.
load_parsed(w, p) ==
    IF ~p.ok THEN [w EXCEPT !.run.last_error = "Parse"]
    ELSE IF p.loaded = <<>> THEN [w EXCEPT !.run.last_error = "Empty"]
    ELSE enter_replay([w EXCEPT !.run.last_error = "None"], p.loaded, p.first_reason)

\* App::load_jsonl
load_jsonl(w, file) ==
    IF ~file.readable THEN [w EXCEPT !.run.last_error = "Read"]
    ELSE load_parsed(w, ParseLines(file.lines, 1, <<>>, "None"))

\* The samples shown become shown and the cursor end; the time marker follows
\* the last sample.
replay_show(w, end, shown) ==
    [w EXCEPT !.samples = shown,
              !.run.replay_pos = end,
              !.run.t = IF shown = <<>> THEN w.run.t ELSE shown[Len(shown)].t]

\* replay_all[replay_pos..end] appended to the samples.
replay_extend(w, end) ==
    replay_show(w, end, w.samples \o SubSeq(w.run.replay_all, w.run.replay_pos + 1, end))

\* (replay_pos + n).min(replay_all.len())
ReplayEnd(w, n) ==
    IF w.run.replay_pos + n < Len(w.run.replay_all)
    THEN w.run.replay_pos + n ELSE Len(w.run.replay_all)

\* The end of replay_tick: the samples up to end, and the stop at the end of
\* the trace.
replay_tick_to(w, end) ==
    [replay_extend(w, end) EXCEPT
        !.run.replay_playing = IF end >= Len(w.run.replay_all) THEN FALSE ELSE @]

\* App::replay_tick
replay_tick(w) ==
    IF ~(w.run.replay_loaded /\ w.run.replay_playing) THEN w
    ELSE IF w.run.replay_pos >= Len(w.run.replay_all)
    THEN [w EXCEPT !.run.replay_playing = FALSE]
    ELSE replay_tick_to(w, ReplayEnd(w, IF w.run.replay_speed < 1 THEN 1
                                        ELSE w.run.replay_speed))

\* App::do_step_replay
do_step_replay(w) ==
    IF ~w.run.replay_loaded THEN w
    ELSE IF w.run.replay_pos >= Len(w.run.replay_all)
    THEN [w EXCEPT !.run.replay_playing = FALSE]
    ELSE replay_extend(w, ReplayEnd(w, 1))

\* The GUI as App::default leaves it, at 200 ms a tick.
InitReplay ==
    \E w \in {StartRun("gui", "Normal", 200, F(420), 12345)} :
        /\ s_cfg = w.s_cfg /\ s_state = w.s_state /\ temps = w.temps /\ x = w.x
        /\ pid = w.pid /\ u = w.u /\ sensors = w.sensors /\ run = w.run
        /\ samples = w.samples

\* The Load button, with the file the path names.
Load ==
    \E file \in ReplayFiles : Becomes(load_jsonl(World, file))

\* A frame: replay_tick.
ReplayTick == Becomes(replay_tick(World))

\* The Play replay / Pause replay button.
TogglePlay ==
    /\ run.replay_loaded
    /\ run' = [run EXCEPT !.replay_playing = ~run.replay_playing]
    /\ UNCHANGED <<s_cfg, s_state, temps, x, pid, u, sensors, samples>>

\* The Step replay button.
StepReplay ==
    /\ run.replay_loaded
    /\ Becomes(do_step_replay(World))

\* The replay speed slider.
SetSpeed ==
    \E sp \in ReplaySpeeds \ {run.replay_speed} :
        /\ run' = [run EXCEPT !.replay_speed = sp]
        /\ UNCHANGED <<s_cfg, s_state, temps, x, pid, u, sensors, samples>>

NextReplay ==
    \/ Load
    \/ ReplayTick
    \/ TogglePlay
    \/ StepReplay
    \/ SetSpeed
    \/ GuiStep
    \/ GuiReset

\* update runs replay_tick at the start of every frame, and asks for another
\* frame while the replay is playing.
SpecReplay == InitReplay /\ [][NextReplay]_vars /\ WF_vars(ReplayTick)

\* ------------------------------------------------------------ C28

\* The replay cursor is at the end of the loaded trace.
ReplayAtEnd == run.replay_loaded /\ run.replay_pos = Len(run.replay_all)

\* C28 -- GUI replay cursor: while a trace is loaded, whatever replay ticks,
\* replay steps and play/pause toggles follow the load, 1 <= replay_pos <=
\* the length of the loaded trace and the displayed samples are the first
\* replay_pos samples of the loaded trace, in order; once replay_pos is at the
\* end replay_playing becomes false; and a load that fails sets last_error
\* and changes nothing else.
C28_ReplayCursor ==
    /\ [](run.replay_loaded =>
            /\ 1 <= run.replay_pos
            /\ run.replay_pos <= Len(run.replay_all)
            /\ samples = SubSeq(run.replay_all, 1, run.replay_pos))
    /\ (ReplayAtEnd ~> ~run.replay_playing)
    /\ [][(run'.last_error # run.last_error /\ run'.last_error # "None") =>
            /\ run' = [run EXCEPT !.last_error = run'.last_error]
            /\ UNCHANGED <<s_cfg, s_state, temps, x, pid, u, sensors, samples>>]_vars

\* C28's case: the longest trace was loaded at 2 samples a frame and played
\* or stepped to its end, where the replay stopped, and a later load failed
\* on a malformed line.
C28_Witness ==
    /\ ReplayAtEnd
    /\ Len(run.replay_all) = MaxReplayRows
    /\ run.replay_speed = 2
    /\ ~run.replay_playing
    /\ samples = run.replay_all
    /\ run.last_error = "Parse"

====
